---- MODULE Spec2Model ----
(***************************************************************************)
(* A model of the request-serving worker of x-server: path normalisation,  *)
(* the HTTP/1.x parser, the static responder's sandbox check, the per-IP   *)
(* admission controller, the OAuth validator, the connection lifecycle and *)
(* the reactor's handler table.  Strings are sequences of byte codes.      *)
(***************************************************************************)
EXTENDS Integers, Sequences, FiniteSets, TLC

(***************************************************************************)
(* Bounds of the model                                                     *)
(***************************************************************************)
MaxPathLen == 4
MaxHeaderLines == 3
MaxAvail == 1
MaxTime == 303
MaxRun == 2
\* the limits g_limit_config holds, scaled down
max_connections_per_ip == 2
max_requests_per_second == 2
max_requests_burst == 2
cleanup_interval == 2
MaxFd == 3
\* the connection pool's max_connections, scaled down
pool_max_connections == 4
MaxHandlers == 4
MaxBuffers == 3
MaxSweeps == 2
MaxRefs == 3
MaxDrainFd == 2
MaxRelayFd == 3
MaxChunks == 2
MaxRelayClock == 40

(***************************************************************************)
(* Byte codes                                                              *)
(***************************************************************************)
SLASH == 47
DOT == 46
PERCENT == 37
BACKSLASH == 92
COLON == 58
NUL == 0

\* the bytes request paths are drawn from: / . % \ : 0 2 a e
PathAlphabet == {47, 46, 37, 92, 58, 48, 50, 97, 101}

RECURSIVE SeqsUpTo(_, _)
SeqsUpTo(S, n) ==
    IF n = 0 THEN {<<>>}
    ELSE LET shorter == SeqsUpTo(S, n - 1)
         IN  shorter \cup {Append(s, c) : s \in {t \in shorter : Len(t) = n - 1}, c \in S}

\* a C `char` is signed on the target: bytes 0x80..0xFF compare negative
SignedChar(c) == IF c >= 128 THEN c - 256 ELSE c

\* the C string a buffer holds: the bytes before the first NUL
RECURSIVE CStr(_)
CStr(s) == IF s = <<>> \/ Head(s) = NUL THEN <<>> ELSE <<Head(s)>> \o CStr(Tail(s))

\* strstr(s, pat) != NULL
Contains(s, pat) ==
    \E i \in 1..(Len(s) - Len(pat) + 1) : SubSeq(s, i, i + Len(pat) - 1) = pat

(***************************************************************************)
(* normalize_path (http.c)                                                 *)
(***************************************************************************)
MAX_URI_LENGTH == 2048

\* value of a hexadecimal digit, -1 when the byte is not one
HexVal(c) ==
    IF c >= 48 /\ c <= 57 THEN c - 48
    ELSE IF c >= 65 /\ c <= 70 THEN c - 65 + 10
    ELSE IF c >= 97 /\ c <= 102 THEN c - 97 + 10
    ELSE -1

\* the encoded sequences the decoder refuses: %2e %2f %5c in either case
EncodedDanger(c1, c2) ==
    \/ c1 = 50 /\ c2 \in {101, 69}
    \/ c1 = 50 /\ c2 \in {102, 70}
    \/ c1 = 53 /\ c2 \in {99, 67}

\* the decoding loop: [rej |-> TRUE] when a refused sequence is met, else
\* the bytes written to decoded_path from position i on
RECURSIVE UrlDecode(_, _)
UrlDecode(p, i) ==
    IF i > Len(p) THEN [rej |-> FALSE, s |-> <<>>]
    ELSE IF p[i] = PERCENT /\ i + 2 <= Len(p)
    THEN IF EncodedDanger(p[i + 1], p[i + 2]) THEN [rej |-> TRUE, s |-> <<>>]
         ELSE IF HexVal(p[i + 1]) >= 0 /\ HexVal(p[i + 2]) >= 0
              THEN LET r == UrlDecode(p, i + 3)
                   IN  [rej |-> r.rej,
                        s |-> <<HexVal(p[i + 1]) * 16 + HexVal(p[i + 2])>> \o r.s]
              ELSE LET r == UrlDecode(p, i + 1)
                   IN  [rej |-> r.rej, s |-> <<p[i]>> \o r.s]
    ELSE LET r == UrlDecode(p, i + 1)
         IN  [rej |-> r.rej, s |-> <<p[i]>> \o r.s]

\* strstr(decoded, "../") or strstr(decoded, "..\\")
HasTraversalSequence(d) ==
    Contains(d, <<DOT, DOT, SLASH>>) \/ Contains(d, <<DOT, DOT, BACKSLASH>>)

\* a byte below 0x20 as a signed char
HasControlChar(d) == \E i \in 1..Len(d) : SignedChar(d[i]) < 32

IsAlpha(c) == (c >= 65 /\ c <= 90) \/ (c >= 97 /\ c <= 122)

\* "X:" at the very start of a path of three or more bytes
HasDrivePrefix(d) == Len(d) >= 3 /\ d[2] = COLON /\ IsAlpha(d[1])

\* the copying loop: collapses runs of '/', drops "./" and a final "."
RECURSIVE CollapseFrom(_, _)
CollapseFrom(d, i) ==
    IF i > Len(d) THEN <<>>
    ELSE IF d[i] = SLASH
    THEN LET rest == {j \in i..Len(d) : d[j] # SLASH}
         IN  IF rest = {} THEN <<>>
             ELSE LET j == CHOOSE k \in rest : \A m \in rest : k <= m
                  IN  <<SLASH>> \o CollapseFrom(d, j)
    ELSE IF d[i] = DOT /\ (i + 1 > Len(d) \/ d[i + 1] = SLASH)
    THEN IF i + 1 <= Len(d) THEN CollapseFrom(d, i + 2) ELSE <<>>
    ELSE <<d[i]>> \o CollapseFrom(d, i + 1)

NullPath == [null |-> TRUE, path |-> <<>>]
SomePath(s) == [null |-> FALSE, path |-> s]

normalize_path(p) ==
    IF Len(p) = 0 THEN SomePath(<<SLASH>>)
    ELSE IF Len(p) > MAX_URI_LENGTH THEN NullPath
    ELSE LET dec == UrlDecode(p, 1)
             d == CStr(dec.s)
         IN  IF dec.rej THEN NullPath
             ELSE IF HasTraversalSequence(d) THEN NullPath
             ELSE IF HasControlChar(d) THEN NullPath
             ELSE IF HasDrivePrefix(d) THEN NullPath
             ELSE LET body == CollapseFrom(d, 1)
                      n == IF d = <<>> \/ d[1] # SLASH THEN <<SLASH>> \o body ELSE body
                  IN  IF n = <<>> THEN SomePath(<<SLASH>>) ELSE SomePath(n)

(***************************************************************************)
(* parse_http_request_from_buffer (http.c)                                 *)
(*                                                                         *)
(* A request is its request line and its header lines, each header line    *)
(* given as the name and the value the parser isolates around the colon;   *)
(* header names are strings, header values and the URI are byte sequences. *)
(***************************************************************************)
MAX_REQUEST_SIZE == 65536
MAX_HEADERS == 100
MAX_NAME_LENGTH == 256
MAX_VALUE_LENGTH == 8192
MAX_METHOD_LENGTH == 16
MAX_BODY_SIZE == 10485760

\* tolower() over the header names of the model
LowerName == [n \in {"Host", "host", "Transfer-Encoding", "transfer-encoding",
                     "Content-Length", "content-length", "Authorization",
                     "Cookie", "oauth-app-key", "oauth-token", "oauth-time",
                     "oauth-random"} |->
    CASE n \in {"Host", "host"} -> "host"
      [] n \in {"Transfer-Encoding", "transfer-encoding"} -> "transfer-encoding"
      [] n \in {"Content-Length", "content-length"} -> "content-length"
      [] n = "Authorization" -> "authorization"
      [] n = "Cookie" -> "cookie"
      [] OTHER -> n]

\* strcasecmp(a, b) == 0
strcasecmp_eq(a, b) == LowerName[a] = LowerName[b]

critical_headers == <<"Content-Length", "Transfer-Encoding", "Host", "Authorization", "Cookie">>

IsCriticalName(n) == \E i \in 1..Len(critical_headers) : strcasecmp_eq(n, critical_headers[i])

\* parse_method
parse_method(m) ==
    IF m \in {"GET", "POST", "PUT", "DELETE", "HEAD", "OPTIONS"} THEN m ELSE "UNKNOWN"

\* get_header_value: the value of the first stored header of that name
HasHeader(hs, n) == \E i \in 1..Len(hs) : strcasecmp_eq(hs[i].name, n)
get_header_value(hs, n) ==
    LET i == CHOOSE k \in 1..Len(hs) :
                 /\ strcasecmp_eq(hs[k].name, n)
                 /\ \A m \in 1..(k - 1) : ~strcasecmp_eq(hs[m].name, n)
    IN  hs[i].value

\* the value loop of the header scan: CR, LF or another control byte but TAB
ValueHasControl(v) == \E i \in 1..Len(v) : SignedChar(v[i]) < 32 /\ v[i] # 9

\* the bytes of one header line as the line reader counts them
LineLen(l) == Len(l.name) + 1 + Len(l.value)

\* the header loop: hs are the headers stored so far, size the running
\* total_size; yields the stored headers or an overflow verdict
RECURSIVE ReadHeaders(_, _, _, _)
ReadHeaders(lines, i, hs, size) ==
    IF i > Len(lines) THEN [toolarge |-> FALSE, headers |-> hs, size |-> size]
    ELSE LET l == lines[i]
             sz == size + LineLen(l)
         IN  IF sz > MAX_REQUEST_SIZE THEN [toolarge |-> TRUE, headers |-> hs, size |-> sz]
             ELSE IF Len(l.name) = 0 \/ Len(l.name) > MAX_NAME_LENGTH
                  THEN ReadHeaders(lines, i + 1, hs, sz)
             ELSE IF Len(l.value) > MAX_VALUE_LENGTH
                  THEN ReadHeaders(lines, i + 1, hs, sz)
             ELSE IF ValueHasControl(l.value)
                  THEN ReadHeaders(lines, i + 1, hs, sz)
             ELSE IF IsCriticalName(l.name) /\ HasHeader(hs, l.name)
                  THEN ReadHeaders(lines, i + 1, hs, sz)
             ELSE IF Len(l.value) > 0
                  THEN IF Len(hs) >= MAX_HEADERS
                       THEN [toolarge |-> FALSE, headers |-> hs, size |-> sz]
                       ELSE ReadHeaders(lines, i + 1, Append(hs, l), sz)
             ELSE ReadHeaders(lines, i + 1, hs, sz)

IsDigit(c) == c >= 48 /\ c <= 57

RECURSIVE DecimalValue(_)
DecimalValue(ds) ==
    IF ds = <<>> THEN 0 ELSE DecimalValue(SubSeq(ds, 1, Len(ds) - 1)) * 10 + (ds[Len(ds)] - 48)

\* strtol(v, &endptr, 10) on a trimmed value: an optional sign, then digits;
\* ok is FALSE when no digit was converted or bytes follow the digits
strtol10(v) ==
    LET signed == Len(v) >= 1 /\ v[1] \in {43, 45}
        ds == IF signed THEN Tail(v) ELSE v
        allDigits == ds # <<>> /\ \A i \in 1..Len(ds) : IsDigit(ds[i])
    IN  [ok |-> allDigits,
         val |-> IF allDigits
                 THEN (IF signed /\ v[1] = 45 THEN 0 - DecimalValue(ds) ELSE DecimalValue(ds))
                 ELSE 0]

ParseError == [rc |-> -1, method |-> "UNKNOWN", path |-> <<>>, headers |-> <<>>, body_length |-> 0]
ParseNeedMore == [rc |-> -2, method |-> "UNKNOWN", path |-> <<>>, headers |-> <<>>, body_length |-> 0]

\* the request line checks, up to and including normalize_path
RequestLineOk(rq) ==
    /\ Len(rq.method) <= MAX_METHOD_LENGTH
    /\ rq.version \in {"HTTP/1.0", "HTTP/1.1"}
    /\ Len(rq.uri) <= MAX_URI_LENGTH
    /\ \A i \in 1..Len(rq.uri) : ~(SignedChar(rq.uri[i]) < 32 \/ rq.uri[i] = 127)
    /\ parse_method(rq.method) # "UNKNOWN"
    /\ ~normalize_path(rq.uri).null

\* rq.avail is the number of bytes in the buffer after the header block.
\* The header loop stops at the blank line and at the end of the buffer
\* alike, so rq.ended is not read.
parse_http_request_from_buffer(rq) ==
    IF ~RequestLineOk(rq) THEN ParseError
    ELSE LET rd == ReadHeaders(rq.lines, 1, <<>>, Len(rq.method) + 1 + Len(rq.uri) + 1 + Len(rq.version))
             hs == rd.headers
             hasCL == HasHeader(hs, "Content-Length")
             hasTE == HasHeader(hs, "Transfer-Encoding")
             done(n) == [rc |-> 0, method |-> parse_method(rq.method),
                         path |-> normalize_path(rq.uri).path, headers |-> hs,
                         body_length |-> n]
         IN  IF rd.toolarge THEN ParseError
             ELSE IF hasTE /\ hasCL THEN ParseError
             ELSE IF hasTE THEN ParseError
             ELSE IF hasCL
             THEN LET cl == strtol10(get_header_value(hs, "Content-Length"))
                  IN  IF ~cl.ok THEN ParseError
                      ELSE IF cl.val < 0 THEN ParseError
                      ELSE IF cl.val > MAX_BODY_SIZE THEN ParseError
                      ELSE IF cl.val > MAX_REQUEST_SIZE - rd.size THEN ParseError
                      ELSE IF cl.val > 0
                           THEN (IF rq.avail >= cl.val THEN done(cl.val) ELSE ParseNeedMore)
                           ELSE done(0)
             ELSE done(0)

(***************************************************************************)
(* handle_local_file (file_handler.c)                                      *)
(*                                                                         *)
(* The document root is /w.  The file system holds the regular file /w/f,  *)
(* the directory /w/d, the sibling directory /w2 with the file /w2/s, and  *)
(* the file /e outside both.  /w/l is a symbolic link whose target is part *)
(* of the state, and so is what /w/d/index.html is.                        *)
(***************************************************************************)
P_w == <<47, 119>>
P_w_f == <<47, 119, 47, 102>>
P_w_d == <<47, 119, 47, 100>>
P_w_l == <<47, 119, 47, 108>>
P_w2 == <<47, 119, 50>>
P_w2_s == <<47, 119, 50, 47, 115>>
P_e == <<47, 101>>
INDEX_HTML == <<47, 105>>
P_w_d_index == P_w_d \o INDEX_HTML
NoFile == <<>>

LinkTargets == {NoFile, P_w_f, P_w2_s, P_e}
IndexKinds == {"none", "file", "link"}

\* the byte at position i of a C string: NUL right after its last byte
CharAt(a, i) == IF i <= Len(a) THEN a[i] ELSE NUL

\* strncmp(a, b, n) == 0: the comparison stops at n bytes or at the first NUL
strncmp_eq(a, b, n) ==
    LET la == Len(a) + 1
        lb == Len(b) + 1
        m0 == IF n < la THEN n ELSE la
        m == IF m0 < lb THEN m0 ELSE lb
    IN  \A i \in 1..m : CharAt(a, i) = CharAt(b, i)

\* a trailing "/." names the directory itself
StripDot(p) ==
    IF Len(p) >= 2 /\ p[Len(p)] = DOT /\ p[Len(p) - 1] = SLASH
    THEN SubSeq(p, 1, Len(p) - 2) ELSE p

\* realpath(3) over the modelled file system; NoFile when it fails
realpath(fs, path) ==
    LET p == StripDot(path)
    IN  IF p = P_w_l THEN fs.link
        ELSE IF p = P_w_d_index
             THEN (CASE fs.index = "none" -> NoFile
                     [] fs.index = "file" -> P_w_d_index
                     [] fs.index = "link" -> P_e)
        ELSE IF p \in {P_w, P_w_f, P_w_d, P_w2, P_w2_s, P_e} THEN p
        ELSE NoFile

IsDirectory(canon) == canon \in {P_w, P_w_d, P_w2}

\* is_path_safe: no ".." anywhere, no backslash, no colon
is_path_safe(rel) ==
    /\ ~Contains(rel, <<DOT, DOT>>)
    /\ \A i \in 1..Len(rel) : rel[i] # BACKSLASH /\ rel[i] # COLON

\* the request path with the route prefix and one leading slash removed
RelativePath(path, prefix) ==
    LET r0 == IF prefix = <<SLASH>> THEN path
              ELSE SubSeq(path, Len(prefix) + 1, Len(path))
        r1 == IF r0 # <<>> /\ r0[1] = SLASH THEN Tail(r0) ELSE r0
    IN  IF r1 = <<>> THEN <<DOT>> ELSE r1

StaticResult(st, op, ls) == [status |-> st, opened |-> op, listed |-> ls]

\* the whole of handle_local_file: the status answered, the canonical path
\* of the file whose content is sent, the canonical path of a directory listed
handle_local_file(fs, method, path, route) ==
    IF route.local_path = <<>> THEN StaticResult(500, NoFile, NoFile)
    ELSE IF method \notin {"GET", "HEAD"} THEN StaticResult(405, NoFile, NoFile)
    ELSE LET rel == RelativePath(path, route.path_prefix)
             file_path == route.local_path \o <<SLASH>> \o rel
             real_file_path == realpath(fs, file_path)
             real_local_path == realpath(fs, route.local_path)
         IN  IF ~is_path_safe(rel) THEN StaticResult(403, NoFile, NoFile)
             ELSE IF real_file_path = NoFile \/ real_local_path = NoFile
                  THEN StaticResult(404, NoFile, NoFile)
             ELSE IF ~strncmp_eq(real_file_path, real_local_path, Len(real_local_path))
                  THEN StaticResult(403, NoFile, NoFile)
             ELSE IF IsDirectory(real_file_path)
                  THEN LET index_path == file_path \o INDEX_HTML
                       IN  IF realpath(fs, index_path) # NoFile
                           THEN StaticResult(200, realpath(fs, index_path), NoFile)
                           ELSE StaticResult(200, NoFile, real_file_path)
             ELSE StaticResult(200, real_file_path, NoFile)

(***************************************************************************)
(* find_route (config.c), validate_request (auth.c), validate_oauth         *)
(* (oauth.c) and handle_request (connection.c)                             *)
(***************************************************************************)
STAR == 42
OAUTH_WINDOW == 300

\* find_route: the index of the route with the longest matching prefix, 0
\* for NULL; the first of two equally long prefixes is kept
RECURSIVE find_route_from(_, _, _, _)
find_route_from(routes, path, i, best) ==
    IF i > Len(routes) THEN best
    ELSE LET prefix_len == Len(routes[i].path_prefix)
             best_len == IF best = 0 THEN 0 ELSE Len(routes[best].path_prefix)
         IN  IF strncmp_eq(path, routes[i].path_prefix, prefix_len) /\ prefix_len > best_len
             THEN find_route_from(routes, path, i + 1, i)
             ELSE find_route_from(routes, path, i + 1, best)

find_route(routes, path) == find_route_from(routes, path, 1, 0)

\* md5_hash: the digest of the input rendered in lower-case hex.  A 16-bit
\* mixing function stands for MD5 and its four hex digits for the 32.
HexDigit(n) == IF n < 10 THEN 48 + n ELSE 87 + n

RECURSIVE Digest(_)
Digest(input) ==
    IF input = <<>> THEN 7
    ELSE (Digest(SubSeq(input, 1, Len(input) - 1)) * 31 + input[Len(input)]) % 65536

md5_hash(input) ==
    LET d == Digest(input)
    IN  <<HexDigit(d \div 4096), HexDigit((d \div 256) % 16),
          HexDigit((d \div 16) % 16), HexDigit(d % 16)>>

\* atol: leading white space, an optional sign, then the leading digits
RECURSIVE LeadingDigits(_)
LeadingDigits(v) ==
    IF v # <<>> /\ IsDigit(v[1]) THEN <<v[1]>> \o LeadingDigits(Tail(v)) ELSE <<>>

RECURSIVE SkipSpace(_)
SkipSpace(v) ==
    IF v # <<>> /\ (v[1] = 32 \/ (v[1] >= 9 /\ v[1] <= 13)) THEN SkipSpace(Tail(v)) ELSE v

atol(v) ==
    LET s == SkipSpace(v)
        signed == s # <<>> /\ s[1] \in {43, 45}
        n == DecimalValue(LeadingDigits(IF signed THEN Tail(s) ELSE s))
    IN  IF signed /\ s[1] = 45 THEN 0 - n ELSE n

\* the header scan of validate_oauth: a later header of the name replaces
\* an earlier one
LastHeaderValue(hs, n) ==
    LET i == CHOOSE k \in 1..Len(hs) :
                 /\ strcasecmp_eq(hs[k].name, n)
                 /\ \A m \in (k + 1)..Len(hs) : ~strcasecmp_eq(hs[m].name, n)
    IN  hs[i].value

\* find_api_auth_config / the copy loop of validate_oauth: 0 when no entry
\* has the key
FindConfig(configs, app_key) ==
    IF \E i \in 1..Len(configs) : configs[i].app_key = app_key
    THEN CHOOSE i \in 1..Len(configs) :
             /\ configs[i].app_key = app_key
             /\ \A m \in 1..(i - 1) : configs[m].app_key # app_key
    ELSE 0

\* is_url_allowed
is_url_allowed(config, url) ==
    \/ \E i \in 1..Len(config.allowed_urls) : config.allowed_urls[i] = <<STAR>>
    \/ \E i \in 1..Len(config.allowed_urls) :
           LET pattern == config.allowed_urls[i]
               pattern_len == Len(pattern)
           IN  IF pattern[pattern_len] = STAR
               THEN strncmp_eq(url, pattern, pattern_len - 1)
               ELSE url = pattern

\* the expiry test of validate_oauth
TimestampExpired(current_time, auth_time_value) ==
    current_time - auth_time_value > OAUTH_WINDOW

\* the comparison loop of validate_oauth
token_match(expected_token, auth_token) ==
    LET expected_len == Len(expected_token)
        actual_len == Len(auth_token)
        n == IF expected_len < actual_len THEN expected_len ELSE actual_len
    IN  /\ expected_len = actual_len
        /\ \A i \in 1..n : expected_token[i] = auth_token[i]

OAuthVerdict(ok, error) == [ok |-> ok, error |-> error]

\* validate_oauth over the parsed headers
validate_oauth(configs, hs, path, current_time) ==
    IF \E n \in {"oauth-app-key", "oauth-token", "oauth-time", "oauth-random"} : ~HasHeader(hs, n)
    THEN OAuthVerdict(FALSE, "missing parameters")
    ELSE LET auth_app_key == LastHeaderValue(hs, "oauth-app-key")
             auth_token == LastHeaderValue(hs, "oauth-token")
             auth_time == LastHeaderValue(hs, "oauth-time")
             auth_random == LastHeaderValue(hs, "oauth-random")
             c == FindConfig(configs, auth_app_key)
         IN  IF c = 0 THEN OAuthVerdict(FALSE, "app_key does not exist")
             ELSE IF TimestampExpired(current_time, atol(auth_time))
                  THEN OAuthVerdict(FALSE, "timestamp expired")
             ELSE IF ~token_match(md5_hash(auth_app_key \o configs[c].app_secret
                                           \o auth_time \o auth_random), auth_token)
                  THEN OAuthVerdict(FALSE, "token does not match")
             ELSE IF ~is_url_allowed(configs[c], path)
                  THEN OAuthVerdict(FALSE, "URL not allowed")
             ELSE OAuthVerdict(TRUE, "")

\* validate_request
validate_request(configs, hs, path, route, current_time) ==
    IF route.auth_type = "AUTH_OAUTH"
    THEN validate_oauth(configs, hs, path, current_time)
    ELSE OAuthVerdict(TRUE, "")

\* what handle_request did: its return value, the status answered, the
\* route that matched (0 for none), whether validate_oauth ran and what it
\* said, which responder ran, the file the static responder sent, whether
\* the proxy contacted the upstream, the clock at the call, and the number
\* of status lines written to the client
HandleResult(rc, status, route, oauth, responder, opened, upstream, at, responses) ==
    [rc |-> rc, status |-> status, route |-> route, oauth |-> oauth,
     responder |-> responder, opened |-> opened, upstream |-> upstream, at |-> at,
     responses |-> responses]

\* how the transfer of a 200 body to the client ends
BodyOutcomes == {"sent", "send_failed"}

\* the return value of handle_local_file and the status lines it wrote:
\* every refusal writes its own error page and returns -1; a file or a
\* listing writes the 200 header and returns -1 when the body transfer fails
StaticOutcome(f, body) ==
    IF f.status # 200 THEN [rc |-> -1, written |-> 1]
    ELSE [rc |-> IF body = "sent" THEN 0 ELSE -1, written |-> 1]

\* how proxy_request ends: the upstream's response is relayed; connecting
\* fails (error page); writing the request to the upstream fails; the
\* upstream closes without a byte; nothing arrives for 30 s (error page);
\* the 30 s run out after part of the response was relayed (error page)
ProxyOutcomes == {"relayed", "connect_failed", "upstream_write_failed", "upstream_silent",
                  "timeout", "timeout_after_data"}

ProxyOutcome(o) ==
    CASE o = "relayed" -> [rc |-> 0, status |-> 200, written |-> 1]
      [] o = "connect_failed" -> [rc |-> -1, status |-> 502, written |-> 1]
      [] o = "upstream_write_failed" -> [rc |-> -1, status |-> 500, written |-> 0]
      [] o = "upstream_silent" -> [rc |-> 0, status |-> 200, written |-> 0]
      [] o = "timeout" -> [rc |-> -1, status |-> 504, written |-> 1]
      [] o = "timeout_after_data" -> [rc |-> -1, status |-> 504, written |-> 2]

\* handle_request; proxy and body are how proxy_request and the body
\* transfer of the static responder end
handle_request(routes, configs, fs, rq, proxy, body, current_time) ==
    LET p == parse_http_request_from_buffer(rq)
        none(rc, st, n) == HandleResult(rc, st, 0, "not run", "none", NoFile, FALSE, current_time, n)
    IN  IF p.rc = -2 THEN none(1, 0, 0)
        ELSE IF p.rc # 0 THEN none(-1, 400, 1)
        ELSE IF p.method \notin {"GET", "POST", "HEAD", "OPTIONS"} THEN none(-1, 405, 1)
        ELSE LET r == find_route(routes, p.path)
             IN  IF r = 0 THEN none(-1, 404, 1)
                 ELSE LET v == validate_request(configs, p.headers, p.path, routes[r], current_time)
                          oauth == IF routes[r].auth_type # "AUTH_OAUTH" THEN "not run"
                                   ELSE IF v.ok THEN "ok" ELSE v.error
                      IN  IF ~v.ok
                          THEN HandleResult(-1, 403, r, oauth, "none", NoFile, FALSE, current_time, 1)
                          ELSE IF routes[r].type = "ROUTE_PROXY"
                          THEN LET x == ProxyOutcome(proxy)
                               IN  HandleResult(x.rc, x.status, r, oauth, "proxy", NoFile, TRUE,
                                                current_time, x.written)
                          ELSE LET f == handle_local_file(fs, p.method, p.path, routes[r])
                                   x == StaticOutcome(f, body)
                               IN  \* a failed static responder is answered once more
                                   HandleResult(x.rc, f.status, r, oauth, "static", f.opened, FALSE,
                                                current_time,
                                                IF x.rc # 0 THEN x.written + 1 ELSE x.written)

(***************************************************************************)
(* connection_limit.c: the per-IP connection table and rate table          *)
(*                                                                         *)
(* A table maps each peer IP to its record; present = FALSE stands for an   *)
(* IP without a record in the hash table.                                  *)
(***************************************************************************)
CONN_IDLE_SECONDS == 60
RATE_IDLE_SECONDS == 300

IPs == {"10.0.0.1", "10.0.0.2"}

NoConnRecord == [present |-> FALSE, connection_count |-> 0, last_access |-> 0]
NoRateRecord == [present |-> FALSE, request_count |-> 0, burst_count |-> 0,
                 last_request |-> 0, window_start |-> 0]

\* get_or_create_ip_connection
get_or_create_ip_connection(conns, ip, now) ==
    IF conns[ip].present THEN conns[ip]
    ELSE [present |-> TRUE, connection_count |-> 0, last_access |-> now]

\* get_or_create_ip_rate
get_or_create_ip_rate(rates, ip, now) ==
    IF rates[ip].present THEN rates[ip]
    ELSE [present |-> TRUE, request_count |-> 0, burst_count |-> 0,
          last_request |-> now, window_start |-> now]

\* cleanup_expired_records over lim = [conns, rates, last_cleanup]
cleanup_expired_records(lim, now) ==
    IF now - lim.last_cleanup < cleanup_interval THEN lim
    ELSE [conns |-> [ip \in IPs |->
                        IF /\ lim.conns[ip].present
                           /\ now - lim.conns[ip].last_access > CONN_IDLE_SECONDS
                           /\ lim.conns[ip].connection_count = 0
                        THEN NoConnRecord ELSE lim.conns[ip]],
          rates |-> [ip \in IPs |->
                        IF /\ lim.rates[ip].present
                           /\ now - lim.rates[ip].last_request > RATE_IDLE_SECONDS
                        THEN NoRateRecord ELSE lim.rates[ip]],
          last_cleanup |-> now]

\* check_connection_limit: [rc, lim]
check_connection_limit(lim, ip, now) ==
    LET l1 == cleanup_expired_records(lim, now)
        conn == get_or_create_ip_connection(l1.conns, ip, now)
    IN  IF conn.connection_count >= max_connections_per_ip
        THEN [rc |-> -1, lim |-> [l1 EXCEPT !.conns[ip] = conn]]
        ELSE [rc |-> 0,
              lim |-> [l1 EXCEPT !.conns[ip] =
                          [conn EXCEPT !.connection_count = @ + 1, !.last_access = now]]]

\* release_connection: the table after the call
release_connection(conns, ip, now) ==
    IF conns[ip].present
    THEN [conns EXCEPT ![ip] =
             [@ EXCEPT !.connection_count = IF @ > 0 THEN @ - 1 ELSE @,
                       !.last_access = now]]
    ELSE conns

\* the window reset of check_rate_limit
RateWindow(rate, now) ==
    IF now > rate.window_start
    THEN [rate EXCEPT !.request_count = 0, !.window_start = now]
    ELSE rate

\* the burst test with the comparison off by one
BurstExhausted_strict(rate) == rate.burst_count > max_requests_burst

\* the burst test of check_rate_limit
BurstExhausted(rate) == rate.burst_count >= max_requests_burst

\* the decay step of check_rate_limit, run after last_request was set to now
BurstDecay(rate, now) ==
    IF now > rate.last_request + 1 /\ rate.burst_count > 0
    THEN [rate EXCEPT !.burst_count = @ - 1]
    ELSE rate

\* check_rate_limit: [rc, lim]
check_rate_limit(lim, ip, now) ==
    LET l1 == cleanup_expired_records(lim, now)
        r0 == get_or_create_ip_rate(l1.rates, ip, now)
        r1 == RateWindow(r0, now)
        over == r1.request_count >= max_requests_per_second
    IN  IF over /\ BurstExhausted(r1)
        THEN [rc |-> -1, lim |-> [l1 EXCEPT !.rates[ip] = r1]]
        ELSE LET r2 == IF over THEN [r1 EXCEPT !.burst_count = @ + 1] ELSE r1
                 r3 == [r2 EXCEPT !.request_count = @ + 1, !.last_request = now]
             IN  [rc |-> 0, lim |-> [l1 EXCEPT !.rates[ip] = BurstDecay(r3, now)]]

(***************************************************************************)
(* State                                                                   *)
(***************************************************************************)
VARIABLES
    np_in, np_out, np_pc,          \* normalize_path: input, result, position
    ps_rq, ps_res, ps_pc,          \* parser: request, result, position
    sf_fs, sf_rq, sf_res, sf_pc,   \* static responder: file system, request, result
    g_limit,                       \* g_ip_connections, g_ip_rates, g_last_cleanup
    now,                           \* time(NULL)
    rl_accepted,                   \* per IP: rate checks accepted in the current second
    rl_last,                       \* the last rate check: IP, result, accepted before it
    w_conn,                        \* per fd: the peer IP of the live connection on it
    w_checked,                     \* per fd: whether admission ran when it was accepted
    active_connections,            \* g_worker_ctx->active_connections
    pool_count,                    \* g_connection_pool->connection_count
    au_rq,                         \* the request handle_request was last given
    au_res,                        \* what handle_request did with it
    lp_state,                      \* per handler object: "unalloc", "live" or "freed"
    lp_hfd,                        \* per handler object: handler->fd
    lp_ref,                        \* per handler object: handler->ref_count
    lp_table,                      \* the fd table: fd -> handler object, 0 for none
    lp_epoll,                      \* the kernel's registrations: fd -> data.ptr, 0 for none
    lp_events,                     \* loop->events of the batch being dispatched
    lp_i,                          \* the index of the dispatch loop in the batch
    lp_pc,                         \* where the event loop thread is
    lp_cur,                        \* the handler pointer the dispatch loop holds
    lp_fd,                         \* the local fd of the dispatch loop
    lp_stopping,                   \* the main thread ran worker_graceful_shutdown
    fc_items,                      \* the cache table: path -> item, present = FALSE for none
    fc_buf,                        \* per data buffer: "unalloc", "live" or "freed"
    fc_borrow,                     \* per sender: the data pointer get returned, 0 for none
    conn,                          \* the connection: state, read buffer, socket, counters
    cl_rest,                       \* the tokens the client has not sent yet
    ev_ready,                      \* a read event of the connection is pending
    sd_in,                         \* the file of a static response and how its transfer loops end
    sd_res,                        \* what send_file_content returned and put on the socket
    sd_pc,                         \* "header" before send_file_content ran, "done" after
    dr_pc,                         \* where the main thread of the worker is
    dr_sig,                        \* g_shutdown_worker
    dr_listening,                  \* the listening socket has a handler in the event loop
    dr_slot,                       \* per descriptor: its entry in the connection pool's array
    dr_active,                     \* g_worker_ctx->active_connections
    dr_waited,                     \* seconds worker_graceful_shutdown has waited
    dr_exit,                       \* how the worker ended: "none", "clean" or "crashed"
    rx_route,                      \* per connection: the type of the route its request matches
    rx_pending,                    \* connections with a read event waiting for the loop thread
    rx_done,                       \* connections whose request was handled
    rx_loop,                       \* 0, or the connection whose relay the loop thread is running
    rx_elapsed,                    \* seconds the running relay has spent in poll slices
    rx_chunks,                     \* chunks the running relay has forwarded
    rx_out,                        \* per connection: what its relay wrote to the client
    rg_table,                      \* the fd table's nodes, newest first: fd and handler object
    rg_epoll,                      \* the kernel's registrations: fd -> data.ptr, 0 for none
    rg_heap,                       \* per handler object: "unalloc", "live" or "freed"
    rg_ret,                        \* what the last registration call returned
    ds_conn,                       \* per connection slot: the connection's resources and what destroy did so far
    ds_count,                      \* per IP: active_count of its admission record
    ds_active,                     \* the worker's active_connections gauge
    ds_cur,                        \* 0, or the connection connection_destroy_internal is working on
    ds_step,                       \* how many steps of connection_destroy_internal have run
    ac_admits,                     \* calls of the admission step of accept_connection_callback
    ac_rejects,                    \* those of them that rejected the connection
    ac_releases,                   \* calls of release_connection made for a connection's destruction
    tk_expected,                   \* the token md5_hash produced for the request
    tk_presented,                  \* the value of the oauth-token header
    tk_res,                        \* what the comparison computed: token_match and the bytes it visited
    tk_pc,                         \* "start" before the comparison, "done" after it
    cf_store,                      \* per configuration array: "unalloc", "live" or "freed"
    cf_g,                          \* g_configs: 0 for NULL, or the array it points to
    cf_mutex,                      \* g_config_mutex: -1 when free, or the thread that holds it
    cf_pc,                         \* per thread: where it is in init_oauth_config or validate_oauth
    cf_temp,                       \* init_oauth_config: temp_configs and old_configs
    cf_local,                      \* per validator: the arrays its local_config fields were copied from
    cf_bad,                        \* a thread has read an array that was freed or never built
    cz_items,                      \* the cache table: path -> present and the size of its data
    cz_current_size,               \* g_cache_manager->current_size
    cz_ret,                        \* what the last call of file_io_enhanced_add_to_cache returned
    pt_chain,                      \* the items of the cache, newest first: path, data and size
    pt_last,                       \* per path: the bytes of the last put that returned 0, and how many there were
    pt_got,                        \* what the last file_io_enhanced_get_from_cache returned
    sl_disk,                       \* per path: the bytes of the file on disk and its mtime
    sl_cache,                      \* per path: the cache item made from the file, if any
    sl_sent,                       \* what the last file_io_enhanced_send_file put on the socket
    sl_now,                        \* time(NULL)
    pq_p,                          \* the first request path
    pq_q,                          \* the second request path
    pq_out,                        \* what normalize_path returned for each of them
    pq_pc,                         \* "paths" before the two calls, "done" after them
    rc_g,                          \* g_worker_ctx->config: the config record the worker points at
    rc_freed,                      \* config records free_config has released
    rc_conn,                       \* conn->config of each connection, NoConfig when not live
    rc_new,                        \* new_config held by worker_reload_config
    rc_pc,                         \* position of the main loop inside worker_reload_config
    rc_route,                      \* what find_route(conn->config, ...) last produced per connection
    rw_path,                       \* request->path handed to the proxy
    rw_prefix,                     \* route->path_prefix of the matched route
    rw_out,                        \* the path written into the upstream request line
    rw_pc,                         \* "request" before the rewrite, "sent" after it
    sv_method,                     \* which sender file_io_enhanced_send_file chose: "sendfile" or "mmap"
    sv_size,                       \* st.st_size of the file being sent
    sv_sent,                       \* total_sent
    sv_room,                       \* free space in the client socket's send buffer
    sv_pc,                         \* "send" before the system call, "sleep" in usleep, "returned" after the loop
    sv_client,                     \* the client: "reading", "stopped" reading, or "closed"
    sv_other,                      \* another connection's ready event: "pending" or "served"
    oc_state,                      \* each accepted socket's connection record: "unused", "none", "live" or "freed"
    oc_closes,                     \* close() calls made on each accepted fd
    oc_destroys,                   \* connection_destroy_internal runs on each connection record
    oc_pool,                       \* pool->connections[0 .. connection_count-1]
    oc_phase                       \* "running" until the worker exits its main loop, then "stopped"

pathVars == <<np_in, np_out, np_pc>>
parseVars == <<ps_rq, ps_res, ps_pc>>
staticVars == <<sf_fs, sf_rq, sf_res, sf_pc>>
limitVars == <<g_limit, now, rl_accepted, rl_last>>
workerVars == <<w_conn, w_checked, active_connections, pool_count>>
authVars == <<au_rq, au_res>>
loopVars == <<lp_state, lp_hfd, lp_ref, lp_table, lp_epoll, lp_events, lp_i, lp_pc,
              lp_cur, lp_fd, lp_stopping>>
cacheVars == <<fc_items, fc_buf, fc_borrow>>
connVars == <<conn, cl_rest, ev_ready>>
sendVars == <<sd_in, sd_res, sd_pc>>
drainVars == <<dr_pc, dr_sig, dr_listening, dr_slot, dr_active, dr_waited, dr_exit>>
relayVars == <<rx_route, rx_pending, rx_done, rx_loop, rx_elapsed, rx_chunks, rx_out>>
regVars == <<rg_table, rg_epoll, rg_heap, rg_ret>>
destroyVars == <<ds_conn, ds_count, ds_active, ds_cur, ds_step>>
admitVars == <<ac_admits, ac_rejects, ac_releases>>
compareVars == <<tk_expected, tk_presented, tk_res, tk_pc>>
reloadVars == <<cf_store, cf_g, cf_mutex, cf_pc, cf_temp, cf_local, cf_bad>>
sizeVars == <<cz_items, cz_current_size, cz_ret>>
putVars == <<pt_chain, pt_last, pt_got>>
staleVars == <<sl_disk, sl_cache, sl_sent, sl_now>>
pairVars == <<pq_p, pq_q, pq_out, pq_pc>>
refVars == <<rc_g, rc_freed, rc_conn, rc_new, rc_pc, rc_route>>
rewriteVars == <<rw_path, rw_prefix, rw_out, rw_pc>>
stallVars == <<sv_method, sv_size, sv_sent, sv_room, sv_pc, sv_client, sv_other>>
onceVars == <<oc_state, oc_closes, oc_destroys, oc_pool, oc_phase>>
vars == <<pathVars, parseVars, staticVars, limitVars, workerVars, authVars, loopVars, cacheVars, connVars, sendVars, drainVars, relayVars, regVars, destroyVars, admitVars, compareVars, reloadVars, sizeVars, putVars, staleVars, pairVars, refVars, rewriteVars, stallVars, onceVars>>

(***************************************************************************)
(* Path normalisation as the parser applies it to the request URI          *)
(***************************************************************************)
PathInit ==
    /\ np_in \in SeqsUpTo(PathAlphabet, MaxPathLen)
    /\ np_out = NullPath
    /\ np_pc = "uri"

PathOff == np_in = <<>> /\ np_out = NullPath /\ np_pc = "off"

\* parse_http_request_from_buffer line 510: request->path = normalize_path(uri)
NormalizeUri ==
    /\ np_pc = "uri"
    /\ np_out' = normalize_path(np_in)
    /\ np_pc' = "done"
    /\ UNCHANGED np_in

(***************************************************************************)
(* The parser applied to a buffered request                                *)
(***************************************************************************)
CHUNKED == <<99, 104, 117, 110, 107, 101, 100>>
ParseMethods == {"GET", "BREW"}
ParseVersions == {"HTTP/1.1", "HTTP/2.0"}
ParseUris == {<<47, 97>>}
ParseNames == {"Host", "host", "Transfer-Encoding", "Content-Length"}
\* "10485761", one more than 10 MiB
OVER_10MIB == <<49, 48, 52, 56, 53, 55, 54, 49>>
\* an empty value, "chunked", "1", "1" followed by the control byte 0x01,
\* "+1", "-1" and "10485761"
ParseValues == {<<>>, CHUNKED, <<49>>, <<49, 1>>, <<43, 49>>, <<45, 49>>, OVER_10MIB}
HeaderLines == [name : ParseNames, value : ParseValues]
\* what the read buffer holds: the request line, header lines, whether the
\* blank line that ends the header block has arrived (ended), and the number
\* of bytes after it (avail)
Requests == {rq \in [method : ParseMethods, uri : ParseUris, version : ParseVersions,
                     lines : SeqsUpTo(HeaderLines, MaxHeaderLines), ended : BOOLEAN,
                     avail : 0..MaxAvail] : ~rq.ended => rq.avail = 0}

NoRequest == [method |-> "GET", uri |-> <<>>, version |-> "HTTP/1.1", lines |-> <<>>,
              ended |-> FALSE, avail |-> 0]

ParseInit ==
    /\ ps_rq \in Requests
    /\ ps_res = ParseNeedMore
    /\ ps_pc = "buffered"

ParseOff == ps_rq = NoRequest /\ ps_res = ParseNeedMore /\ ps_pc = "off"

\* handle_request line 385: the parser runs over the connection's read buffer
ParseRequest ==
    /\ ps_pc = "buffered"
    /\ ps_res' = parse_http_request_from_buffer(ps_rq)
    /\ ps_pc' = "parsed"
    /\ UNCHANGED ps_rq

(***************************************************************************)
(* The static responder applied to a routed request                        *)
(***************************************************************************)
\* the routes: prefix "/" and prefix "/s/", both rooted at /w
StaticRoutes == {[path_prefix |-> <<47>>, local_path |-> P_w],
                 [path_prefix |-> <<47, 115, 47>>, local_path |-> P_w]}
\* what follows the prefix: nothing, f, l, d, x (absent), a..
StaticTails == {<<>>, <<102>>, <<108>>, <<100>>, <<120>>, <<97, 46, 46>>}
StaticMethods == {"GET", "POST"}
FileSystems == [link : LinkTargets, index : IndexKinds]
NoStaticRequest == [method |-> "GET", path |-> <<>>, route |-> [path_prefix |-> <<47>>, local_path |-> <<>>]]
NoStaticResult == StaticResult(0, NoFile, NoFile)

StaticInit ==
    /\ sf_fs \in FileSystems
    /\ sf_rq \in {[method |-> m, path |-> r.path_prefix \o t, route |-> r] :
                      m \in StaticMethods, t \in StaticTails, r \in StaticRoutes}
    /\ sf_res = NoStaticResult
    /\ sf_pc = "routed"

StaticOff ==
    /\ sf_fs = [link |-> NoFile, index |-> "none"]
    /\ sf_rq = NoStaticRequest
    /\ sf_res = NoStaticResult
    /\ sf_pc = "off"

\* handle_request line 448: the ROUTE_STATIC case
HandleLocalFile ==
    /\ sf_pc = "routed"
    /\ sf_res' = handle_local_file(sf_fs, sf_rq.method, sf_rq.path, sf_rq.route)
    /\ sf_pc' = "done"
    /\ UNCHANGED <<sf_fs, sf_rq>>

(***************************************************************************)
(* The admission tables driven through their interface                     *)
(***************************************************************************)
NoRateCall == [ip |-> "", rc |-> 0, before |-> 0]

\* the tables are empty at start; the first call of a run finds
\* g_last_cleanup behind the clock and sweeps empty tables
LimitInit ==
    /\ g_limit = [conns |-> [ip \in IPs |-> NoConnRecord],
                  rates |-> [ip \in IPs |-> NoRateRecord],
                  last_cleanup |-> 0]
    /\ now = 0
    /\ rl_accepted = [ip \in IPs |-> 0]
    /\ rl_last = NoRateCall

\* the clock moves on by a second (at most MaxRun times in a row), or by
\* more than either idle period
Tick ==
    \E d \in {1, RATE_IDLE_SECONDS + 1} :
        /\ now + d <= MaxTime
        /\ d = 1 => now % (RATE_IDLE_SECONDS + 1) < MaxRun
        /\ now' = now + d
        /\ rl_accepted' = [ip \in IPs |-> 0]
        /\ rl_last' = NoRateCall
        /\ UNCHANGED g_limit

CheckConnectionLimit(ip) ==
    /\ g_limit' = check_connection_limit(g_limit, ip, now).lim
    /\ UNCHANGED <<now, rl_accepted, rl_last>>

ReleaseConnection(ip) ==
    /\ g_limit' = [g_limit EXCEPT !.conns = release_connection(g_limit.conns, ip, now)]
    /\ UNCHANGED <<now, rl_accepted, rl_last>>

CheckRateLimit(ip) ==
    LET r == check_rate_limit(g_limit, ip, now)
    IN  /\ g_limit' = r.lim
        /\ rl_last' = [ip |-> ip, rc |-> r.rc, before |-> rl_accepted[ip]]
        /\ rl_accepted' = IF r.rc = 0 THEN [rl_accepted EXCEPT ![ip] = @ + 1] ELSE rl_accepted
        /\ UNCHANGED now

(***************************************************************************)
(* The worker: accept callback and connection destruction                  *)
(***************************************************************************)
FDs == 1..MaxFd
NoIp == "none"

WorkerInit ==
    /\ w_conn = [fd \in FDs |-> NoIp]
    /\ w_checked = [fd \in FDs |-> FALSE]
    /\ active_connections = 0
    /\ pool_count = 0

\* connection_destroy_internal: the admission count is released for the
\* peer IP, the fd is unregistered and closed, the gauge is decremented
\* when positive, the record is freed
connection_destroy_internal(ip) ==
    /\ g_limit' = [g_limit EXCEPT !.conns = release_connection(g_limit.conns, ip, now)]
    /\ active_connections' = IF active_connections > 0 THEN active_connections - 1
                             ELSE active_connections

AcceptOutcomes == {"fcntl_failed", "alloc_failed", "add_handler_failed", "created"}

\* one round of the loop of worker_accept_callback: accept() returns fd for
\* a peer ip; how the round ends is an input
WorkerAccept(ip, fd, outcome) ==
    /\ w_conn[fd] = NoIp
    /\ IF outcome = "fcntl_failed" \/ pool_count >= pool_max_connections
          \/ outcome = "alloc_failed"
       THEN \* close(client_fd); continue
            UNCHANGED <<g_limit, workerVars>>
       ELSE IF outcome = "add_handler_failed"
       THEN \* connection_create destroys the record it built and returns NULL
            /\ connection_destroy_internal(ip)
            /\ UNCHANGED <<w_conn, w_checked, pool_count>>
       ELSE /\ pool_count' = pool_count + 1
            /\ w_conn' = [w_conn EXCEPT ![fd] = ip]
            /\ w_checked' = [w_checked EXCEPT ![fd] = FALSE]
            /\ active_connections' = active_connections + 1
            /\ UNCHANGED g_limit
    /\ UNCHANGED <<now, rl_accepted, rl_last>>

\* connection_destroy on a live connection (keep_alive is always 0, so the
\* record is never returned to the pool)
ConnectionDestroy(fd) ==
    /\ w_conn[fd] # NoIp
    /\ connection_destroy_internal(w_conn[fd])
    /\ w_conn' = [w_conn EXCEPT ![fd] = NoIp]
    /\ UNCHANGED <<w_checked, pool_count, now, rl_accepted, rl_last>>

(***************************************************************************)
(* handle_request on routes with and without OAuth                         *)
(***************************************************************************)
URI_s_f == <<47, 115, 47, 102>>
URI_p_a == <<47, 112, 47, 97>>
URI_p_b == <<47, 112, 47, 98>>
URI_o_f == <<47, 111, 47, 102>>
URI_o_x == <<47, 111, 47, 120>>
URI_z == <<47, 122>>
AuthUris == {URI_s_f, URI_p_a, URI_p_b, URI_o_f, URI_o_x, URI_z}

\* the route table: /s static and /p proxied behind OAuth, /o static and open
AuthRoutes ==
    <<[path_prefix |-> <<47, 115>>, type |-> "ROUTE_STATIC", auth_type |-> "AUTH_OAUTH", local_path |-> P_w],
      [path_prefix |-> <<47, 112>>, type |-> "ROUTE_PROXY", auth_type |-> "AUTH_OAUTH", local_path |-> <<>>],
      [path_prefix |-> <<47, 111>>, type |-> "ROUTE_STATIC", auth_type |-> "AUTH_NONE", local_path |-> P_w]>>

KEY_1 == <<107, 49>>
KEY_unknown == <<107, 57>>
SECRET_1 == <<115, 49>>
RANDOM_1 == <<114>>

\* config/api_auth.conf: one application, allowed /p/a* and /s/f
AuthConfigs ==
    <<[app_key |-> KEY_1, app_secret |-> SECRET_1,
       allowed_urls |-> <<URI_p_a \o <<STAR>>, URI_s_f>>]>>

AuthFs == [link |-> NoFile, index |-> "none"]

AuthKeys == {KEY_1, KEY_unknown}
\* oauth-time values: "1", "2", "603", "604" and "x"
AuthTimes == {<<49>>, <<50>>, <<54, 48, 51>>, <<54, 48, 52>>, <<120>>}
TokenKinds == {"good", "wrong", "short"}
OAuthHeaderNames == <<"oauth-app-key", "oauth-token", "oauth-time", "oauth-random">>
Missing == {"none", "oauth-app-key", "oauth-token", "oauth-time", "oauth-random"}
AuthMethods == {"GET", "DELETE"}

\* the token a client holding SECRET_1 computes, one with its last digit
\* changed, and one cut short
ClientToken(kind, key, time) ==
    LET t == md5_hash(key \o SECRET_1 \o time \o RANDOM_1)
        last == t[Len(t)]
    IN  CASE kind = "good" -> t
          [] kind = "wrong" -> SubSeq(t, 1, Len(t) - 1) \o <<IF last = 48 THEN 49 ELSE 48>>
          [] kind = "short" -> SubSeq(t, 1, Len(t) - 1)

\* the header block a client sends
AuthLines(key, kind, time, missing) ==
    LET all == <<[name |-> "oauth-app-key", value |-> key],
                 [name |-> "oauth-token", value |-> ClientToken(kind, key, time)],
                 [name |-> "oauth-time", value |-> time],
                 [name |-> "oauth-random", value |-> RANDOM_1]>>
    IN  SelectSeq(all, LAMBDA l : l.name # missing)

NoAuthRequest ==
    [method |-> "GET", uri |-> <<>>, key |-> <<>>, token |-> "good", time |-> <<>>,
     missing |-> "none", lines |-> <<>>]
NoAuthResult == HandleResult(0, 0, 0, "not run", "none", NoFile, FALSE, 0, 0)

AuthInit == au_rq = NoAuthRequest /\ au_res = NoAuthResult
AuthOff == au_rq = NoAuthRequest /\ au_res = NoAuthResult

\* a complete request is in the read buffer of a fresh connection and
\* handle_request runs on it
HandleRequest ==
    /\ au_rq = NoAuthRequest
    /\ \E method \in AuthMethods, uri \in AuthUris, key \in AuthKeys, kind \in TokenKinds,
       time \in AuthTimes, missing \in Missing, proxy \in ProxyOutcomes,
       body \in BodyOutcomes :
        LET lines == AuthLines(key, kind, time, missing)
            rq == [method |-> method, uri |-> uri, version |-> "HTTP/1.1",
                   lines |-> lines, ended |-> TRUE, avail |-> 0]
        IN  /\ au_rq' = [method |-> method, uri |-> uri, key |-> key, token |-> kind,
                         time |-> time, missing |-> missing, lines |-> lines]
            /\ au_res' = handle_request(AuthRoutes, AuthConfigs, AuthFs, rq, proxy, body, now)
    /\ UNCHANGED limitVars

\* keep_alive is 0 after every request: the connection is closed and the
\* next request arrives on a fresh one
RequestDone ==
    /\ au_rq # NoAuthRequest
    /\ au_rq' = NoAuthRequest
    /\ au_res' = NoAuthResult
    /\ UNCHANGED limitVars

(***************************************************************************)
(* event_loop.c: handler objects, the fd table and the dispatch thread     *)
(***************************************************************************)
Handlers == 1..MaxHandlers
LISTEN_FD == 1
EventKinds == {"IN", "OUT", "HUP"}

\* the listening socket is registered before the loop thread starts
LoopInit ==
    /\ lp_state = [h \in Handlers |-> IF h = 1 THEN "live" ELSE "unalloc"]
    /\ lp_hfd = [h \in Handlers |-> IF h = 1 THEN LISTEN_FD ELSE 0]
    /\ lp_ref = [h \in Handlers |-> IF h = 1 THEN 1 ELSE 0]
    /\ lp_table = [fd \in FDs |-> IF fd = LISTEN_FD THEN 1 ELSE 0]
    /\ lp_epoll = [fd \in FDs |-> IF fd = LISTEN_FD THEN 1 ELSE 0]
    /\ lp_events = <<>>
    /\ lp_i = 1
    /\ lp_pc = "wait"
    /\ lp_cur = 0
    /\ lp_fd = 0
    /\ lp_stopping = FALSE

LoopOff == LoopInit

\* event_loop_add_handler for an fd that is not registered: a handler is
\* allocated with ref_count 1, put in the table and given to the kernel
event_loop_add_handler(fd, h) ==
    /\ lp_state' = [lp_state EXCEPT ![h] = "live"]
    /\ lp_hfd' = [lp_hfd EXCEPT ![h] = fd]
    /\ lp_ref' = [lp_ref EXCEPT ![h] = 1]
    /\ lp_table' = [lp_table EXCEPT ![fd] = h]
    /\ lp_epoll' = [lp_epoll EXCEPT ![fd] = h]

\* event_loop_del_handler: remove_handler_from_table takes the handler out
\* of the table and adds one to its ref_count, the fd leaves the kernel's
\* set, and the handler is freed
event_loop_del_handler(fd) ==
    LET handler_to_free == lp_table[fd]
    IN  /\ lp_table' = [lp_table EXCEPT ![fd] = 0]
        /\ lp_epoll' = [lp_epoll EXCEPT ![fd] = 0]
        /\ IF handler_to_free # 0
           THEN /\ lp_ref' = [lp_ref EXCEPT ![handler_to_free] = @ + 1]
                /\ lp_state' = [lp_state EXCEPT ![handler_to_free] = "freed"]
           ELSE UNCHANGED <<lp_ref, lp_state>>
        /\ UNCHANGED lp_hfd

\* the batches epoll_wait can return: one or two registered fds, each with
\* its data.ptr and the kind of event
Batches ==
    LET ready == {fd \in FDs : lp_epoll[fd] # 0}
        ev(fd, k) == [ptr |-> lp_epoll[fd], kind |-> k]
    IN  {<<ev(fd, k)>> : fd \in ready, k \in EventKinds}
        \cup UNION {{<<ev(a, j), ev(b, k)>> : b \in ready \ {a}, j \in EventKinds, k \in EventKinds} :
                     a \in ready}

\* epoll_wait returns a batch
EpollWait ==
    /\ lp_pc = "wait"
    /\ \E b \in Batches : lp_events' = b
    /\ lp_i' = 1
    /\ lp_pc' = "next"
    /\ UNCHANGED <<lp_state, lp_hfd, lp_ref, lp_table, lp_epoll, lp_cur, lp_fd, lp_stopping>>

\* the head of the dispatch loop: past the last event the thread waits
\* again; an inactive handler is skipped; otherwise ref_count++ and the fd
\* is read.  What the active flag of a freed handler reads as is open.
DispatchBegin ==
    /\ lp_pc = "next"
    /\ IF lp_i > Len(lp_events)
       THEN /\ lp_pc' = "wait"
            /\ lp_events' = <<>>
            /\ lp_i' = 1
            /\ UNCHANGED <<lp_ref, lp_cur, lp_fd>>
       ELSE LET handler == lp_events[lp_i].ptr
            IN  \E active \in IF lp_state[handler] = "live" THEN {TRUE} ELSE BOOLEAN :
                    IF ~active
                    THEN /\ lp_i' = lp_i + 1
                         /\ UNCHANGED <<lp_pc, lp_events, lp_ref, lp_cur, lp_fd>>
                    ELSE /\ lp_ref' = [lp_ref EXCEPT ![handler] = @ + 1]
                         /\ lp_cur' = handler
                         /\ lp_fd' = lp_hfd[handler]
                         /\ lp_pc' = "callback"
                         /\ UNCHANGED <<lp_events, lp_i>>
    /\ UNCHANGED <<lp_state, lp_hfd, lp_table, lp_epoll, lp_stopping>>

CallbackEffects == {"keep", "destroy", "accept"}

\* read_cb or write_cb runs on the loop thread.  The listener's callback
\* accepts a connection and registers its fd; a connection's callback
\* either keeps the connection or destroys it, and connection_destroy
\* calls event_loop_del_handler on the connection's own fd.
Callback(effect) ==
    /\ lp_pc = "callback"
    /\ lp_pc' = "release"
    /\ CASE effect = "accept" ->
              /\ lp_fd = LISTEN_FD
              /\ \E fd \in FDs \ {LISTEN_FD}, h \in Handlers :
                     /\ lp_table[fd] = 0 /\ lp_epoll[fd] = 0
                     /\ lp_state[h] = "unalloc"
                     /\ \A g \in Handlers : lp_state[g] = "unalloc" => h <= g
                     /\ event_loop_add_handler(fd, h)
         [] effect = "destroy" ->
              /\ lp_fd # LISTEN_FD
              /\ event_loop_del_handler(lp_fd)
         [] effect = "keep" ->
              UNCHANGED <<lp_state, lp_hfd, lp_ref, lp_table, lp_epoll>>
    /\ UNCHANGED <<lp_events, lp_i, lp_cur, lp_fd, lp_stopping>>

\* the tail of the dispatch loop: handler->fd is compared with the local
\* fd and ref_count is decremented, through the pointer taken at the head
DispatchEnd ==
    /\ lp_pc = "release"
    /\ lp_ref' = [lp_ref EXCEPT ![lp_cur] = @ - 1]
    /\ lp_cur' = 0
    /\ lp_fd' = 0
    /\ lp_i' = lp_i + 1
    /\ lp_pc' = "next"
    /\ UNCHANGED <<lp_state, lp_hfd, lp_table, lp_epoll, lp_events, lp_stopping>>

\* worker_graceful_shutdown on the main thread: the listening fd is
\* removed from the loop while the loop thread runs
GracefulShutdown ==
    /\ ~lp_stopping
    /\ lp_stopping' = TRUE
    /\ event_loop_del_handler(LISTEN_FD)
    /\ UNCHANGED <<lp_events, lp_i, lp_pc, lp_cur, lp_fd>>

(***************************************************************************)
(* file_io_enhanced.c: the file cache, its borrowers and its sweeper       *)
(***************************************************************************)
CACHE_EXPIRY == 3600
CachePaths == {P_w_f, P_w2_s}
Senders == {"s1", "s2"}
Buffers == 1..MaxBuffers

NoItem == [present |-> FALSE, data |-> 0, access_time |-> 0, ref_count |-> 0, is_valid |-> FALSE]

CacheInit ==
    /\ fc_items = [p \in CachePaths |-> NoItem]
    /\ fc_buf = [b \in Buffers |-> "unalloc"]
    /\ fc_borrow = [s \in Senders |-> 0]

CacheOff == CacheInit

\* malloc: the lowest buffer never handed out
FreshBuffer(b) ==
    /\ fc_buf[b] = "unalloc"
    /\ \A c \in Buffers : fc_buf[c] = "unalloc" => b <= c

\* file_io_enhanced_add_to_cache: an existing item gets its data freed and
\* replaced and is marked valid; a new item starts with ref_count 1
AddToCache(path) ==
    \E b \in Buffers :
        /\ FreshBuffer(b)
        /\ LET item == fc_items[path]
           IN  IF item.present
               THEN /\ fc_buf' = [fc_buf EXCEPT ![item.data] = "freed", ![b] = "live"]
                    /\ fc_items' = [fc_items EXCEPT ![path] =
                           [item EXCEPT !.data = b, !.access_time = now, !.is_valid = TRUE]]
               ELSE /\ fc_buf' = [fc_buf EXCEPT ![b] = "live"]
                    /\ fc_items' = [fc_items EXCEPT ![path] =
                           [present |-> TRUE, data |-> b, access_time |-> now,
                            ref_count |-> 1, is_valid |-> TRUE]]
        /\ UNCHANGED <<fc_borrow, limitVars>>

\* file_io_enhanced_get_from_cache called by file_io_enhanced_send_file: on
\* a hit the access time is refreshed, ref_count is incremented and the
\* sender holds item->data after the mutex is released
GetFromCache(s, path) ==
    /\ fc_borrow[s] = 0
    /\ fc_items[path].ref_count < MaxRefs
    /\ LET item == fc_items[path]
       IN  IF item.present /\ item.is_valid
           THEN /\ fc_items' = [fc_items EXCEPT ![path] =
                       [item EXCEPT !.access_time = now, !.ref_count = @ + 1]]
                /\ fc_borrow' = [fc_borrow EXCEPT ![s] = item.data]
           ELSE UNCHANGED <<fc_items, fc_borrow>>
    /\ UNCHANGED <<fc_buf, limitVars>>

\* the write loop of file_io_enhanced_send_file ends and the sender lets go
\* of the pointer; nothing is told to the cache
SendFromCacheDone(s) ==
    /\ fc_borrow[s] # 0
    /\ fc_borrow' = [fc_borrow EXCEPT ![s] = 0]
    /\ UNCHANGED <<fc_items, fc_buf, limitVars>>

\* one pass of cache_cleanup_thread: every item not accessed for more than
\* an hour is unlinked and its path, data and node are freed
Expired(item) == item.present /\ now - item.access_time > CACHE_EXPIRY

CacheCleanup ==
    /\ fc_items' = [p \in CachePaths |-> IF Expired(fc_items[p]) THEN NoItem ELSE fc_items[p]]
    /\ fc_buf' = [b \in Buffers |->
                     IF \E p \in CachePaths : Expired(fc_items[p]) /\ fc_items[p].data = b
                     THEN "freed" ELSE fc_buf[b]]
    /\ UNCHANGED <<fc_borrow, limitVars>>

\* file_io_enhanced_remove_from_cache
RemoveFromCache(path) ==
    /\ LET item == fc_items[path]
       IN  IF item.present
           THEN /\ fc_items' = [fc_items EXCEPT ![path] = NoItem]
                /\ fc_buf' = [fc_buf EXCEPT ![item.data] = "freed"]
           ELSE UNCHANGED <<fc_items, fc_buf>>
    /\ UNCHANGED <<fc_borrow, limitVars>>

\* the sweeper sleeps cache_cleanup_interval and more than an hour goes by
CacheClock ==
    /\ now + CACHE_EXPIRY + 1 <= MaxSweeps * (CACHE_EXPIRY + 1)
    /\ now' = now + CACHE_EXPIRY + 1
    /\ UNCHANGED <<g_limit, rl_accepted, rl_last, cacheVars>>

(***************************************************************************)
(* connection.c: one accepted connection, its read buffer and its read     *)
(* callback                                                                *)
(*                                                                         *)
(* The byte stream of the client is a sequence of tokens: a request line   *)
(* ("GET" or "POST"), a Host line ("H"), a Content-Length line ("CL" for  *)
(* 2, "CL99" for 99),                                                      *)
(* the blank line ("BL") and one body byte ("B").  Sizes count tokens.      *)
(***************************************************************************)
\* the read buffer of a new connection, the room connection_read keeps free
\* before it doubles the buffer, and the largest buffer it accepts
BUFFER_SIZE == 4
READ_MARGIN == 1
MAX_READ_SIZE == 16
\* connection_is_timeout: seconds for a connection without keep-alive
SHORT_TIMEOUT == 5
\* connection_create_internal: conn->timeout
CONN_TIMEOUT == 30
\* the clock of this part stops here
MaxClock == 12

GET_REQUEST == <<"GET", "H", "BL">>
POST_REQUEST == <<"POST", "CL", "BL", "B", "B">>
\* a POST that declares 99 body bytes ("CL99") and delivers as many as the
\* largest read buffer takes
LONG_REQUEST ==
    [i \in 1..MAX_READ_SIZE |-> IF i = 1 THEN "POST" ELSE IF i = 2 THEN "CL99"
                                ELSE IF i = 3 THEN "BL" ELSE "B"]
ClientStreams == {GET_REQUEST, POST_REQUEST, GET_REQUEST \o GET_REQUEST, POST_REQUEST \o GET_REQUEST,
                  LONG_REQUEST}

\* the header line a token stands for
HeaderOf(t) ==
    IF t = "CL" THEN [name |-> "Content-Length", value |-> <<50>>]
    ELSE IF t = "CL99" THEN [name |-> "Content-Length", value |-> <<57, 57>>]
    ELSE [name |-> "Host", value |-> <<49>>]

\* strstr(read_buffer, "\r\n\r\n"): the position of the first blank line, 0
\* when there is none
BlankLineAt(buf) ==
    IF \E i \in 1..Len(buf) : buf[i] = "BL"
    THEN CHOOSE i \in 1..Len(buf) : buf[i] = "BL" /\ \A j \in 1..(i - 1) : buf[j] # "BL"
    ELSE 0

\* the read buffer as parse_http_request_from_buffer sees it
BufferRequest(buf) ==
    LET k == BlankLineAt(buf)
        last == IF k = 0 THEN Len(buf) ELSE k - 1
    IN  [method |-> buf[1], uri |-> URI_o_f, version |-> "HTTP/1.1",
         lines |-> [i \in 1..(last - 1) |-> HeaderOf(buf[i + 1])],
         ended |-> k # 0,
         avail |-> IF k = 0 THEN 0 ELSE Len(buf) - k]

atoi(v) == atol(v)

\* handle_request forces a short connection before it returns 0
KeepAliveAfterRequest_kept == TRUE
KeepAliveAfterRequest == FALSE

\* connection_destroy: the descriptor leaves the event loop and is closed
connection_destroy(c) == [c EXCEPT !.state = "destroyed"]

connection_is_timeout(c, t) ==
    IF c.keep_alive THEN t - c.last_activity > CONN_TIMEOUT
    ELSE t - c.last_activity > SHORT_TIMEOUT

\* connection_read: at most one read() per call
connection_read(c) ==
    LET grow == Len(c.buf) >= c.read_size - READ_MARGIN
        size == IF grow THEN c.read_size * 2 ELSE c.read_size
        room == size - Len(c.buf) - 1
        n == IF Len(c.sock) < room THEN Len(c.sock) ELSE room
    IN  IF grow /\ size > MAX_READ_SIZE THEN [rc |-> -2, c |-> c]
        ELSE IF n = 0
        THEN [rc |-> IF c.eof THEN -1 ELSE 0, c |-> [c EXCEPT !.read_size = size]]
        ELSE [rc |-> n,
              c |-> [c EXCEPT !.read_size = size,
                              !.buf = @ \o SubSeq(c.sock, 1, n),
                              !.sock = SubSeq(c.sock, n + 1, Len(c.sock))]]

\* the removal of the processed request from the read buffer
RemoveProcessed(buf, headers) ==
    LET k == BlankLineAt(buf)
        header_length == IF HasHeader(headers, "Content-Length")
                         THEN k + atoi(get_header_value(headers, "Content-Length"))
                         ELSE k
    IN  IF k = 0 THEN <<>>
        ELSE IF header_length <= Len(buf) THEN SubSeq(buf, header_length + 1, Len(buf))
        ELSE buf

\* the value of F at v, with v computed once
With(v, F(_)) == CHOOSE y \in {F(x) : x \in {v}} : TRUE

\* the connection after handle_request returned h for the request rq
AfterRequest(c, h) ==
    [c EXCEPT !.responses = @ + h.responses,
              !.handled = IF h.rc = 1 THEN @ ELSE @ + 1,
              !.keep_alive = IF h.rc = 0 THEN KeepAliveAfterRequest
                             ELSE IF h.rc = -1 THEN FALSE ELSE @]

\* connection_read_callback at time t; body is how a static body transfer ends
RECURSIVE connection_read_callback(_, _, _)
connection_read_callback(c, t, body) ==
    IF connection_is_timeout(c, t) THEN connection_destroy(c)
    ELSE With(connection_read([c EXCEPT !.last_activity = t]), LAMBDA r :
         IF r.rc < 0 THEN connection_destroy(r.c)
         ELSE IF Len(r.c.buf) = 0 THEN r.c
         ELSE With(BufferRequest(r.c.buf), LAMBDA rq :
              With(handle_request(AuthRoutes, AuthConfigs, AuthFs, rq, "relayed", body, t), LAMBDA h :
              With(AfterRequest(r.c, h), LAMBDA c2 :
                  IF h.rc = 0
                  THEN With([c2 EXCEPT !.buf = RemoveProcessed(@, parse_http_request_from_buffer(rq).headers)],
                            LAMBDA c3 :
                                IF ~c3.keep_alive THEN connection_destroy(c3)
                                ELSE IF Len(c3.buf) > 0 THEN connection_read_callback(c3, t, body)
                                ELSE c3)
                  ELSE IF h.rc = -1 THEN connection_destroy(c2)
                  ELSE c2))))

\* connection_create_internal: a zeroed connection with a fresh read buffer
NewConnection(t) ==
    [state |-> "open", buf |-> <<>>, sock |-> <<>>, eof |-> FALSE, read_size |-> BUFFER_SIZE,
     last_activity |-> t, keep_alive |-> FALSE, handled |-> 0, responses |-> 0]

NoConnection == [NewConnection(0) EXCEPT !.state = "destroyed"]

ConnInit ==
    /\ conn = NewConnection(0)
    /\ cl_rest \in ClientStreams
    /\ ev_ready = FALSE

ConnOff ==
    /\ conn = NoConnection
    /\ cl_rest = <<>>
    /\ ev_ready = FALSE

\* the client delivers the next n tokens; the socket becomes readable and the
\* edge-triggered registration reports it once
ClientSend(n) ==
    /\ conn.state = "open" /\ ~conn.eof
    /\ n \in 1..Len(cl_rest)
    /\ conn' = [conn EXCEPT !.sock = @ \o SubSeq(cl_rest, 1, n)]
    /\ cl_rest' = SubSeq(cl_rest, n + 1, Len(cl_rest))
    /\ ev_ready' = TRUE
    /\ UNCHANGED limitVars

\* the client closes its side
ClientClose ==
    /\ conn.state = "open" /\ ~conn.eof
    /\ conn' = [conn EXCEPT !.eof = TRUE]
    /\ ev_ready' = TRUE
    /\ UNCHANGED <<cl_rest, limitVars>>

\* the event loop dispatches the pending read event to connection_read_callback
ReadCallback ==
    /\ conn.state = "open" /\ ev_ready
    /\ \E body \in BodyOutcomes : conn' = connection_read_callback(conn, now, body)
    /\ ev_ready' = FALSE
    /\ UNCHANGED <<cl_rest, limitVars>>

\* time passes
ConnTick ==
    \E d \in {1, SHORT_TIMEOUT + 1} :
        /\ now + d <= MaxClock
        /\ now' = now + d
        /\ UNCHANGED <<g_limit, rl_accepted, rl_last, connVars>>

(***************************************************************************)
(* file_handler.c, file_io_enhanced.c: the body transfer of a static       *)
(* response                                                                *)
(*                                                                         *)
(* A transfer loop is described by how it ends: sent is the number of      *)
(* bytes it put on the socket, and end is "complete" (all bytes sent),     *)
(* "stopped" (the system call returned 0) or "error" (it returned -1 with  *)
(* an errno the loop does not retry).                                      *)
(***************************************************************************)
MaxFileSize == 3

LoopEnds(size) ==
    {[sent |-> size, end |-> "complete"]}
        \cup [sent : 0..(size - 1), end : {"stopped", "error"}]

\* file_io_enhanced_send_file for a file that is not cached: the sendfile or
\* mmap loop; *sent_bytes is stored only when the loop is left without error
file_io_enhanced_send_file(size, z) ==
    IF z.end = "error" THEN [ret |-> -1, total_sent |-> 0, wire |-> z.sent]
    ELSE [ret |-> 0, total_sent |-> z.sent, wire |-> z.sent]

\* sendfile_optimized: a sendfile loop from offset 0, then a read/write loop
\* from the offset the first loop reached
sendfile_optimized(size, f, g) ==
    IF f.end = "complete" THEN [ret |-> 0, total_sent |-> size, wire |-> size]
    ELSE IF g.end = "error"
    THEN [ret |-> -1, total_sent |-> f.sent + g.sent, wire |-> f.sent + g.sent]
    ELSE [ret |-> 0, total_sent |-> f.sent + g.sent, wire |-> f.sent + g.sent]

\* what the read/write loop of sendfile_optimized can do with the bytes left
\* after the sendfile loop: write them all, or fail after some of them
RestEnds(size, f) ==
    {[sent |-> size - f.sent, end |-> "complete"]}
        \cup [sent : 0..(size - f.sent - 1), end : {"error"}]

\* send_file_content for a file of that size: content_length is the length
\* the 200 header advertises, wire the body bytes put on the socket
send_file_content(size, z, open_ok, f, g) ==
    LET first == file_io_enhanced_send_file(size, z)
    IN  IF first.ret # 0 \/ first.total_sent # size
        THEN IF ~open_ok
             THEN [rc |-> -1, content_length |-> size, wire |-> first.wire, fallback |-> TRUE]
             ELSE LET second == sendfile_optimized(size, f, g)
                  IN  [rc |-> IF second.ret # 0 \/ second.total_sent # size THEN -1 ELSE 0,
                       content_length |-> size, wire |-> first.wire + second.wire,
                       fallback |-> TRUE]
        ELSE [rc |-> 0, content_length |-> size, wire |-> first.wire, fallback |-> FALSE]

NoTransfer == [rc |-> 0, content_length |-> 0, wire |-> 0, fallback |-> FALSE]

\* a file and the way each transfer loop will end for it
Transfers ==
    UNION {UNION {UNION {[size : {n}, z : LoopEnds(n), open_ok : BOOLEAN, f : {f}, g : {g}]
                            : g \in RestEnds(n, f)}
                     : f \in LoopEnds(n)}
              : n \in 0..MaxFileSize}

SendInit ==
    /\ sd_in \in Transfers
    /\ sd_res = NoTransfer
    /\ sd_pc = "header"

SendOff ==
    /\ sd_in = [size |-> 0, z |-> [sent |-> 0, end |-> "complete"], open_ok |-> TRUE,
                f |-> [sent |-> 0, end |-> "complete"], g |-> [sent |-> 0, end |-> "complete"]]
    /\ sd_res = NoTransfer
    /\ sd_pc = "off"

\* send_file_content after its stat: the 200 header, then the body
SendFileContent ==
    /\ sd_pc = "header"
    /\ sd_res' = send_file_content(sd_in.size, sd_in.z, sd_in.open_ok, sd_in.f, sd_in.g)
    /\ sd_pc' = "done"
    /\ UNCHANGED sd_in

(***************************************************************************)
(* worker_process.c: SIGTERM, worker_graceful_shutdown and the cleanup     *)
(* after the main loop                                                     *)
(*                                                                         *)
(* dr_slot[fd] is the entry of g_connection_pool->connections[] made for   *)
(* the connection of fd: "none" (no entry), "live" (the entry points to a  *)
(* connection), "freed" (the connection was destroyed; the entry still     *)
(* holds its address, since only connection_pool_close_connection clears   *)
(* entries and connection_destroy never reaches it with keep_alive 0).     *)
(***************************************************************************)
\* worker_graceful_shutdown: the longest wait for active connections
DRAIN_SECONDS == 30

DrainFds == 1..MaxDrainFd

LiveSlots == {fd \in DrainFds : dr_slot[fd] = "live"}
RecordedSlots == {fd \in DrainFds : dr_slot[fd] # "none"}

DrainInit ==
    /\ dr_pc = "running"
    /\ dr_sig = FALSE
    /\ dr_listening = TRUE
    /\ dr_slot = [fd \in DrainFds |-> "none"]
    /\ dr_active = 0
    /\ dr_waited = 0
    /\ dr_exit = "none"

DrainOff ==
    /\ dr_pc = "off"
    /\ dr_sig = FALSE
    /\ dr_listening = FALSE
    /\ dr_slot = [fd \in DrainFds |-> "none"]
    /\ dr_active = 0
    /\ dr_waited = 0
    /\ dr_exit = "none"

\* worker_signal_handler(SIGTERM)
SigTerm ==
    /\ dr_pc \in {"running", "draining", "stopped"}
    /\ dr_sig' = TRUE
    /\ UNCHANGED <<dr_pc, dr_listening, dr_slot, dr_active, dr_waited, dr_exit>>

\* worker_accept_callback on the loop thread, one accepted descriptor
DrainAccept(fd, outcome) ==
    /\ dr_pc \in {"running", "draining"}
    /\ dr_listening
    /\ dr_slot[fd] = "none"
    /\ IF outcome \in {"fcntl_failed", "alloc_failed"}
          \/ Cardinality(RecordedSlots) >= pool_max_connections
       THEN UNCHANGED <<dr_slot, dr_active>>
       ELSE IF outcome = "add_handler_failed"
       THEN \* connection_create destroys the record it built and returns NULL
            /\ dr_active' = IF dr_active > 0 THEN dr_active - 1 ELSE dr_active
            /\ UNCHANGED dr_slot
       ELSE /\ dr_slot' = [dr_slot EXCEPT ![fd] = "live"]
            /\ dr_active' = dr_active + 1
    /\ UNCHANGED <<dr_pc, dr_sig, dr_listening, dr_waited, dr_exit>>

\* connection_destroy on the loop thread
DrainDestroy(fd) ==
    /\ dr_pc \in {"running", "draining"}
    /\ dr_slot[fd] = "live"
    /\ dr_slot' = [dr_slot EXCEPT ![fd] = "freed"]
    /\ dr_active' = IF dr_active > 0 THEN dr_active - 1 ELSE dr_active
    /\ UNCHANGED <<dr_pc, dr_sig, dr_listening, dr_waited, dr_exit>>

\* the main loop sees g_shutdown_worker and enters worker_graceful_shutdown
ShutdownBegin ==
    /\ dr_pc = "running" /\ dr_sig
    /\ dr_sig' = FALSE
    /\ dr_listening' = FALSE
    /\ dr_waited' = 0
    /\ dr_pc' = "draining"
    /\ UNCHANGED <<dr_slot, dr_active, dr_exit>>

\* one sleep(1) of the wait loop
DrainSleep ==
    /\ dr_pc = "draining"
    /\ dr_active > 0 /\ dr_waited < DRAIN_SECONDS
    /\ dr_waited' = dr_waited + 1
    /\ UNCHANGED <<dr_pc, dr_sig, dr_listening, dr_slot, dr_active, dr_exit>>

\* the wait loop ends; the main loop is left with state WORKER_STOPPED
DrainEnd ==
    /\ dr_pc = "draining"
    /\ ~(dr_active > 0 /\ dr_waited < DRAIN_SECONDS)
    /\ dr_pc' = "stopped"
    /\ UNCHANGED <<dr_sig, dr_listening, dr_slot, dr_active, dr_waited, dr_exit>>

\* how the cleanup can end: connection_pool_destroy runs after
\* event_loop_destroy and calls connection_destroy on every recorded entry,
\* which reads a freed connection or removes a handler from the freed loop
CleanupEnds == IF RecordedSlots = {} THEN {"clean"} ELSE {"clean", "crashed"}

\* event_loop_stop, event_loop_destroy, connection_pool_destroy and the rest
\* of worker_process_run
WorkerCleanup ==
    /\ dr_pc = "stopped"
    /\ dr_exit' \in CleanupEnds
    /\ dr_slot' = [fd \in DrainFds |-> "none"]
    /\ dr_active' = IF dr_exit' = "clean" THEN 0 ELSE dr_active
    /\ dr_pc' = "exited"
    /\ UNCHANGED <<dr_sig, dr_listening, dr_waited>>

(***************************************************************************)
(* proxy.c, event_loop.c: the relay of proxy_request and the thread that   *)
(* runs it                                                                  *)
(*                                                                         *)
(* event_loop_start creates the one thread that waits for events and runs  *)
(* every callback; connection_read_callback calls handle_request, which    *)
(* calls proxy_request, so the relay loop runs on that thread.  rx_loop is *)
(* 0 while the thread is in its wait, and the descriptor of the connection *)
(* whose relay it is running otherwise.                                    *)
(***************************************************************************)
\* the poll slice and the deadline of the relay loop, in seconds
PROXY_POLL_SECONDS == 5
PROXY_DEADLINE == 30

RelayFds == 1..MaxRelayFd
RouteKinds == {"ROUTE_PROXY", "ROUTE_STATIC"}

\* what a relay has written to its client: chunks of the upstream response
\* and error pages
NoOutput == [chunks |-> 0, pages |-> 0]

RelayInit ==
    /\ rx_route \in [RelayFds -> RouteKinds]
    /\ rx_pending = {}
    /\ rx_done = {}
    /\ rx_loop = 0
    /\ rx_elapsed = 0
    /\ rx_chunks = 0
    /\ rx_out = [fd \in RelayFds |-> NoOutput]

RelayOff ==
    /\ rx_route = [fd \in RelayFds |-> "ROUTE_STATIC"]
    /\ rx_pending = {}
    /\ rx_done = RelayFds
    /\ rx_loop = 0
    /\ rx_elapsed = 0
    /\ rx_chunks = 0
    /\ rx_out = [fd \in RelayFds |-> NoOutput]

\* the request of a connection arrives: its read event becomes pending
RequestArrives(fd) ==
    /\ fd \notin rx_pending /\ fd \notin rx_done /\ rx_loop # fd
    /\ rx_pending' = rx_pending \cup {fd}
    /\ UNCHANGED <<rx_route, rx_done, rx_loop, rx_elapsed, rx_chunks, rx_out>>

\* the loop thread takes a pending event and runs connection_read_callback:
\* a static request is answered and the connection destroyed; a proxied
\* request enters the relay loop of proxy_request
LoopDispatch(fd) ==
    /\ rx_loop = 0
    /\ fd \in rx_pending
    /\ rx_pending' = rx_pending \ {fd}
    /\ IF rx_route[fd] = "ROUTE_PROXY"
       THEN /\ rx_loop' = fd
            /\ rx_elapsed' = 0
            /\ rx_chunks' = 0
            /\ UNCHANGED rx_done
       ELSE /\ rx_done' = rx_done \cup {fd}
            /\ UNCHANGED <<rx_loop, rx_elapsed, rx_chunks>>
    /\ UNCHANGED <<rx_route, rx_out>>

PollOutcomes == {"data", "eof", "client_eof", "slice"}

\* seconds poll can take before it reports data inside one slice
DataDelays == {0, PROXY_POLL_SECONDS - 1}

\* the relay of the loop thread ends: proxy_request returns
RelayReturns ==
    /\ rx_loop' = 0
    /\ rx_done' = rx_done \cup {rx_loop}

\* one round of the relay loop: poll returns with data of the upstream after
\* d seconds, with the end of file of the upstream or of the client, or after
\* a whole slice without an event; only then is the deadline looked at
RelayPoll(outcome, d) ==
    /\ rx_loop # 0
    /\ IF outcome = "data"
       THEN /\ rx_elapsed + d <= MaxRelayClock
            /\ rx_elapsed' = rx_elapsed + d
            /\ rx_chunks' = IF rx_chunks < MaxChunks THEN rx_chunks + 1 ELSE rx_chunks
            /\ rx_out' = [rx_out EXCEPT ![rx_loop].chunks = rx_chunks']
            /\ UNCHANGED <<rx_loop, rx_done>>
       ELSE IF outcome \in {"eof", "client_eof"}
       THEN /\ RelayReturns
            /\ UNCHANGED <<rx_elapsed, rx_chunks, rx_out>>
       ELSE /\ rx_elapsed' = rx_elapsed + PROXY_POLL_SECONDS
            /\ IF rx_elapsed' > PROXY_DEADLINE
               THEN \* send_upstream_error_page(client_sock, 504, ...)
                    /\ RelayReturns
                    /\ rx_out' = [rx_out EXCEPT ![rx_loop].pages = @ + 1]
               ELSE UNCHANGED <<rx_loop, rx_done, rx_out>>
            /\ UNCHANGED rx_chunks
    /\ UNCHANGED <<rx_route, rx_pending>>

(***************************************************************************)
(* The reactor's registrations: event_loop_add_handler,                    *)
(* event_loop_mod_handler and event_loop_del_handler on the fd table and   *)
(* the epoll set.                                                          *)
(***************************************************************************)
MaxRegFd == 2
MaxRegHandlers == 4
RegFds == 1..MaxRegFd
RegHandlers == 1..MaxRegHandlers

RegInit ==
    /\ rg_table = <<>>
    /\ rg_epoll = [fd \in RegFds |-> 0]
    /\ rg_heap = [h \in RegHandlers |-> "unalloc"]
    /\ rg_ret = 0

RegOff == RegInit

\* malloc(sizeof(event_handler_t)): an object that was never handed out
NewHandler == CHOOSE h \in RegHandlers :
    /\ rg_heap[h] = "unalloc"
    /\ \A k \in RegHandlers : rg_heap[k] = "unalloc" => h <= k

\* add_handler_to_table: a new node at the head of the chain, whatever the
\* chain holds
add_handler_to_table(table, fd, handler) ==
    <<[fd |-> fd, handler |-> handler]>> \o table

\* the first node of the chain that carries fd, 0 for none
FirstNode(table, fd) ==
    IF \E i \in DOMAIN table : table[i].fd = fd
    THEN CHOOSE i \in DOMAIN table :
             /\ table[i].fd = fd
             /\ \A j \in DOMAIN table : table[j].fd = fd => i <= j
    ELSE 0

\* remove_handler_from_table: unlinks the first node that carries fd
remove_handler_from_table(table, fd) ==
    LET i == FirstNode(table, fd)
    IN  IF i = 0 THEN table
        ELSE SubSeq(table, 1, i - 1) \o SubSeq(table, i + 1, Len(table))

\* the handler remove_handler_from_table returns
RemovedHandler(table, fd) ==
    IF FirstNode(table, fd) = 0 THEN 0 ELSE table[FirstNode(table, fd)].handler

\* event_loop_add_handler: the handler is allocated and put in the table,
\* then EPOLL_CTL_ADD; when the kernel refuses (EEXIST for an fd it already
\* has) the node just added is removed again and the handler freed
RegAdd(fd) ==
    /\ \E h \in RegHandlers : rg_heap[h] = "unalloc"
    /\ LET handler == NewHandler
           added == add_handler_to_table(rg_table, fd, handler)
       IN  IF rg_epoll[fd] # 0
           THEN /\ rg_table' = remove_handler_from_table(added, fd)
                /\ rg_heap' = [rg_heap EXCEPT ![handler] = "freed"]
                /\ rg_ret' = -1
                /\ UNCHANGED rg_epoll
           ELSE /\ rg_table' = added
                /\ rg_epoll' = [rg_epoll EXCEPT ![fd] = handler]
                /\ rg_heap' = [rg_heap EXCEPT ![handler] = "live"]
                /\ rg_ret' = 0

\* event_loop_mod_handler: a new handler is allocated and given to the
\* kernel with EPOLL_CTL_MOD; the table is touched only on the ENOENT path,
\* where the fd was not registered and is added
RegMod(fd) ==
    /\ \E h \in RegHandlers : rg_heap[h] = "unalloc"
    /\ LET handler == NewHandler
       IN  /\ rg_epoll' = [rg_epoll EXCEPT ![fd] = handler]
           /\ rg_heap' = [rg_heap EXCEPT ![handler] = "live"]
           /\ rg_table' = IF rg_epoll[fd] = 0
                          THEN add_handler_to_table(rg_table, fd, handler)
                          ELSE rg_table
           /\ rg_ret' = 0

\* event_loop_del_handler: the first table node of the fd is removed, the
\* fd leaves the epoll set, and the handler the table held is freed
RegDel(fd) ==
    LET handler_to_free == RemovedHandler(rg_table, fd)
    IN  /\ rg_table' = remove_handler_from_table(rg_table, fd)
        /\ rg_epoll' = [rg_epoll EXCEPT ![fd] = 0]
        /\ rg_heap' = IF handler_to_free = 0 THEN rg_heap
                      ELSE [rg_heap EXCEPT ![handler_to_free] = "freed"]
        /\ rg_ret' = 0

(***************************************************************************)
(* connection.c: connection_destroy_internal, statement by statement       *)
(*                                                                         *)
(* A connection holds a place in its peer's admission record (when it was  *)
(* admitted), a reactor registration, an open descriptor, a place in the   *)
(* worker's gauge, its request and buffers, and its record from the        *)
(* allocator pool.                                                         *)
(***************************************************************************)
MaxDestroyConn == 2
MaxDestroyIp == 2
DestroyConns == 1..MaxDestroyConn
DestroyIps == 1..MaxDestroyIp

NoDestroyConn ==
    [state |-> "none", ip |-> 0, fd_open |-> FALSE, registered |-> FALSE,
     released |-> FALSE, gauged |-> TRUE, freed |-> TRUE, pooled |-> TRUE]

DestroyInit ==
    /\ ds_conn = [c \in DestroyConns |-> NoDestroyConn]
    /\ ds_count = [ip \in DestroyIps |-> 0]
    /\ ds_active = 0
    /\ ds_cur = 0
    /\ ds_step = 0

DestroyOff == DestroyInit

\* a connection is accepted and created: descriptor open, handler added to
\* the reactor, gauge incremented; counted says whether the admission
\* controller counted it
DestroyAccept(c, ip, counted) ==
    /\ ds_cur = 0
    /\ ds_conn[c].state \in {"none", "destroyed"}
    /\ ds_conn' = [ds_conn EXCEPT ![c] =
           [state |-> "open", ip |-> ip, fd_open |-> TRUE, registered |-> TRUE,
            released |-> FALSE, gauged |-> FALSE, freed |-> FALSE, pooled |-> FALSE]]
    /\ ds_count' = [ds_count EXCEPT ![ip] = IF counted THEN @ + 1 ELSE @]
    /\ ds_active' = ds_active + 1
    /\ UNCHANGED <<ds_cur, ds_step>>

\* the statements of connection_destroy_internal in program order
DestroySteps_closeFirst ==
    <<"release_connection", "close", "event_loop_del_handler",
      "active_connections", "free_http_request", "pool_free">>
DestroySteps ==
    <<"release_connection", "event_loop_del_handler", "close",
      "active_connections", "free_http_request", "pool_free">>

\* connection_destroy reaches connection_destroy_internal (keep_alive is 0)
DestroyBegin(c) ==
    /\ ds_cur = 0
    /\ ds_conn[c].state = "open"
    /\ ds_conn' = [ds_conn EXCEPT ![c].state = "destroying"]
    /\ ds_cur' = c
    /\ ds_step' = 0
    /\ UNCHANGED <<ds_count, ds_active>>

\* the next statement of connection_destroy_internal
DestroyStep ==
    /\ ds_cur # 0
    /\ LET c == ds_cur
           s == DestroySteps[ds_step + 1]
           last == ds_step + 1 = Len(DestroySteps)
           c1 == CASE s = "release_connection" -> [ds_conn[c] EXCEPT !.released = TRUE]
                   [] s = "event_loop_del_handler" -> [ds_conn[c] EXCEPT !.registered = FALSE]
                   [] s = "close" -> [ds_conn[c] EXCEPT !.fd_open = FALSE]
                   [] s = "active_connections" -> [ds_conn[c] EXCEPT !.gauged = TRUE]
                   [] s = "free_http_request" -> [ds_conn[c] EXCEPT !.freed = TRUE]
                   [] s = "pool_free" -> [ds_conn[c] EXCEPT !.pooled = TRUE]
       IN  /\ ds_conn' = [ds_conn EXCEPT ![c] =
                  IF last THEN [c1 EXCEPT !.state = "destroyed"] ELSE c1]
           /\ ds_count' = IF s = "release_connection" /\ ds_count[ds_conn[c].ip] > 0
                          THEN [ds_count EXCEPT ![ds_conn[c].ip] = @ - 1]
                          ELSE ds_count
           /\ ds_active' = IF s = "active_connections" /\ ds_active > 0
                           THEN ds_active - 1 ELSE ds_active
           /\ ds_cur' = IF last THEN 0 ELSE c
           /\ ds_step' = IF last THEN 0 ELSE ds_step + 1

(***************************************************************************)
(* connection.c, connection_limit.c: the admission step of                 *)
(* accept_connection_callback and the release of connection_destroy, with  *)
(* the calls counted                                                       *)
(***************************************************************************)
MaxAdmitCalls == 5
MaxAdmitClock == 3

AdmitInit ==
    /\ ac_admits = 0
    /\ ac_rejects = 0
    /\ ac_releases = 0

AdmitOff == AdmitInit

\* accept_connection_callback up to connection_create: check_connection_limit,
\* then check_rate_limit, whose refusal gives the connection count back
admit(lim, ip, t) ==
    LET c == check_connection_limit(lim, ip, t)
        r == check_rate_limit(c.lim, ip, t)
    IN  IF c.rc # 0 THEN [rc |-> -1, lim |-> c.lim]
        ELSE IF r.rc # 0
        THEN [rc |-> -1, lim |-> [r.lim EXCEPT !.conns = release_connection(@, ip, t)]]
        ELSE [rc |-> 0, lim |-> r.lim]

Admit(ip) ==
    /\ ac_admits + ac_releases < MaxAdmitCalls
    /\ g_limit' = admit(g_limit, ip, now).lim
    /\ ac_admits' = ac_admits + 1
    /\ ac_rejects' = IF admit(g_limit, ip, now).rc # 0 THEN ac_rejects + 1 ELSE ac_rejects
    /\ UNCHANGED <<now, rl_accepted, rl_last, ac_releases>>

\* connection_destroy_internal calls release_connection for the peer of
\* every connection it destroys
Release(ip) ==
    /\ ac_admits + ac_releases < MaxAdmitCalls
    /\ g_limit' = [g_limit EXCEPT !.conns = release_connection(@, ip, now)]
    /\ ac_releases' = ac_releases + 1
    /\ UNCHANGED <<now, rl_accepted, rl_last, ac_admits, ac_rejects>>

AdmitTick ==
    /\ now < MaxAdmitClock
    /\ now' = now + 1
    /\ UNCHANGED <<g_limit, rl_accepted, rl_last, ac_admits, ac_rejects, ac_releases>>

(***************************************************************************)
(* oauth.c: the token comparison of validate_oauth                         *)
(*                                                                         *)
(* Tokens are sequences over two byte values; the expected token has the   *)
(* fixed length of an MD5 digest in hexadecimal, scaled to TokenLen.       *)
(***************************************************************************)
TokenLen == 3
MaxPresentedLen == 4
TokenBytes == {97, 98}
TokensOfLen(n) == [1..n -> TokenBytes]
ExpectedTokens == TokensOfLen(TokenLen)
PresentedTokens == UNION {TokensOfLen(n) : n \in 0..MaxPresentedLen}

NoCompare == [token_match |-> FALSE, visited |-> 0]

\* the comparison loop from index i on: for (i; i < expected_len && i <
\* actual_len; i++) if (expected_token[i] != auth_token[i]) token_match = 0
RECURSIVE CompareLoop(_, _, _, _)
CompareLoop(expected_token, auth_token, i, r) ==
    IF i <= Len(expected_token) /\ i <= Len(auth_token)
    THEN CompareLoop(expected_token, auth_token, i + 1,
                     [token_match |-> r.token_match /\ expected_token[i] = auth_token[i],
                      visited |-> r.visited + 1])
    ELSE r

\* token_match starts at 1, is cleared when the lengths differ, and the loop
\* runs whatever the lengths were
token_compare(expected_token, auth_token) ==
    CompareLoop(expected_token, auth_token, 1,
                [token_match |-> Len(expected_token) = Len(auth_token), visited |-> 0])

CompareInit ==
    /\ tk_expected \in ExpectedTokens
    /\ tk_presented \in PresentedTokens
    /\ tk_res = NoCompare
    /\ tk_pc = "start"

CompareOff ==
    /\ tk_expected = <<>>
    /\ tk_presented = <<>>
    /\ tk_res = NoCompare
    /\ tk_pc = "off"

TokenCompare ==
    /\ tk_pc = "start"
    /\ tk_res' = token_compare(tk_expected, tk_presented)
    /\ tk_pc' = "done"
    /\ UNCHANGED <<tk_expected, tk_presented>>

(***************************************************************************)
(* oauth.c: init_oauth_config reloading the credential store while         *)
(* validate_oauth looks a record up, statement by statement                *)
(*                                                                         *)
(* Thread 0 reloads; threads 1..MaxValidators validate.  An array of       *)
(* configurations is a numbered object; a copied field remembers the array *)
(* it was read from.                                                       *)
(***************************************************************************)
MaxValidators == 2
MaxStores == 3
Validators == 1..MaxValidators
RELOADER == 0
Stores == 1..MaxStores
NoLocal == [app_key |-> 0, app_secret |-> 0]
NoTemp == [temp_configs |-> 0, old_configs |-> 0]

ReloadInit ==
    /\ cf_store = [s \in Stores |-> "unalloc"]
    /\ cf_g = 0
    /\ cf_mutex = -1
    /\ cf_pc = [t \in {RELOADER} \cup Validators |-> "idle"]
    /\ cf_temp = NoTemp
    /\ cf_local = [v \in Validators |-> NoLocal]
    /\ cf_bad = FALSE

ReloadOff == ReloadInit

\* load_api_auth_config: the array it returns, never handed out before
NewStore == CHOOSE s \in Stores :
    /\ cf_store[s] = "unalloc"
    /\ \A k \in Stores : cf_store[k] = "unalloc" => s <= k

\* init_oauth_config holds g_config_mutex from its first statement on
ReloadTakesMutex_unlocked == FALSE
ReloadTakesMutex == TRUE

\* pthread_mutex_lock(&g_config_mutex) by thread t
MutexLock(t) ==
    /\ cf_mutex = -1
    /\ cf_mutex' = t

\* init_oauth_config: pthread_mutex_lock
ReloadLock ==
    /\ cf_pc[RELOADER] = "idle"
    /\ IF ReloadTakesMutex THEN MutexLock(RELOADER) ELSE UNCHANGED cf_mutex
    /\ cf_pc' = [cf_pc EXCEPT ![RELOADER] = "load"]
    /\ UNCHANGED <<cf_store, cf_g, cf_temp, cf_local, cf_bad>>

\* temp_configs = load_api_auth_config(...): the new array is built whole
\* before anything points to it; a failed load unlocks and returns -1
ReloadLoad(ok) ==
    /\ cf_pc[RELOADER] = "load"
    /\ IF ok
       THEN /\ \E s \in Stores : cf_store[s] = "unalloc"
            /\ cf_store' = [cf_store EXCEPT ![NewStore] = "live"]
            /\ cf_temp' = [cf_temp EXCEPT !.temp_configs = NewStore]
            /\ cf_pc' = [cf_pc EXCEPT ![RELOADER] = "swap"]
            /\ UNCHANGED cf_mutex
       ELSE /\ cf_pc' = [cf_pc EXCEPT ![RELOADER] = "idle"]
            /\ cf_mutex' = IF cf_mutex = RELOADER THEN -1 ELSE cf_mutex
            /\ UNCHANGED <<cf_store, cf_temp>>
    /\ UNCHANGED <<cf_g, cf_local, cf_bad>>

\* old_configs = g_configs; g_configs = temp_configs
ReloadSwap ==
    /\ cf_pc[RELOADER] = "swap"
    /\ cf_temp' = [cf_temp EXCEPT !.old_configs = cf_g]
    /\ cf_g' = cf_temp.temp_configs
    /\ cf_pc' = [cf_pc EXCEPT ![RELOADER] = "free"]
    /\ UNCHANGED <<cf_store, cf_mutex, cf_local, cf_bad>>

\* free_api_auth_config(old_configs), then pthread_mutex_unlock
ReloadFree ==
    /\ cf_pc[RELOADER] = "free"
    /\ cf_store' = IF cf_temp.old_configs # 0
                   THEN [cf_store EXCEPT ![cf_temp.old_configs] = "freed"]
                   ELSE cf_store
    /\ cf_temp' = NoTemp
    /\ cf_mutex' = IF cf_mutex = RELOADER THEN -1 ELSE cf_mutex
    /\ cf_pc' = [cf_pc EXCEPT ![RELOADER] = "idle"]
    /\ UNCHANGED <<cf_g, cf_local, cf_bad>>

\* validate_oauth: pthread_mutex_lock once the four headers were found
ValidateLock(v) ==
    /\ cf_pc[v] = "idle"
    /\ MutexLock(v)
    /\ cf_pc' = [cf_pc EXCEPT ![v] = "lookup"]
    /\ cf_local' = [cf_local EXCEPT ![v] = NoLocal]
    /\ UNCHANGED <<cf_store, cf_g, cf_temp, cf_bad>>

\* if (g_configs == NULL) the configuration is loaded in place; then the
\* matching record is found and local_config->app_key is copied from it
ValidateCopyKey(v) ==
    /\ cf_pc[v] = "lookup"
    /\ cf_g = 0 => \E s \in Stores : cf_store[s] = "unalloc"
    /\ LET g == IF cf_g = 0 THEN NewStore ELSE cf_g
       IN  /\ cf_g' = g
           /\ cf_store' = IF cf_g = 0 THEN [cf_store EXCEPT ![g] = "live"] ELSE cf_store
           /\ cf_bad' = (cf_bad \/ (cf_g # 0 /\ cf_store[g] # "live"))
           /\ cf_local' = [cf_local EXCEPT ![v].app_key = g]
    /\ cf_pc' = [cf_pc EXCEPT ![v] = "copy"]
    /\ UNCHANGED <<cf_mutex, cf_temp>>

\* local_config->app_secret = strdup(g_configs[i]->app_secret) and the rest
\* of the record, then pthread_mutex_unlock
ValidateCopySecret(v) ==
    /\ cf_pc[v] = "copy"
    /\ cf_bad' = (cf_bad \/ cf_g = 0 \/ (cf_g # 0 /\ cf_store[cf_g] # "live"))
    /\ cf_local' = [cf_local EXCEPT ![v].app_secret = cf_g]
    /\ cf_mutex' = -1
    /\ cf_pc' = [cf_pc EXCEPT ![v] = "use"]
    /\ UNCHANGED <<cf_store, cf_g, cf_temp>>

\* the timestamp test, md5_hash over config->app_secret, the comparison and
\* the URL test read local_config only; it is freed before the return
ValidateUse(v) ==
    /\ cf_pc[v] = "use"
    /\ cf_pc' = [cf_pc EXCEPT ![v] = "idle"]
    /\ UNCHANGED <<cf_store, cf_g, cf_mutex, cf_temp, cf_local, cf_bad>>

(***************************************************************************)
(* file_io_enhanced.c: the sizes of the cached items and the cache's       *)
(* accounting of them                                                      *)
(*                                                                         *)
(* Sizes count units of one MiB; size_t is scaled to SizeBits bits.        *)
(***************************************************************************)
MaxSizePaths == 2
MaxPutSize == 3
SizeBits == 6
\* g_config.max_file_size and g_cache_manager->max_size, in units
max_file_size == 2
max_size == 3
SizePaths == 1..MaxSizePaths
SIZE_MOD == 2 ^ SizeBits
NoSizedItem == [present |-> FALSE, size |-> 0]

SizeInit ==
    /\ cz_items = [p \in SizePaths |-> NoSizedItem]
    /\ cz_current_size = 0
    /\ cz_ret = 0

SizeOff == SizeInit

\* file_io_enhanced_add_to_cache: a size above the per-file limit is
\* refused; an existing item gets the new data and size; a new item is
\* linked in and current_size grows by its size
SizeAdd(path, size) ==
    IF size > max_file_size
    THEN /\ cz_ret' = -1
         /\ UNCHANGED <<cz_items, cz_current_size>>
    ELSE /\ cz_items' = [cz_items EXCEPT ![path] = [present |-> TRUE, size |-> size]]
         /\ cz_current_size' = IF cz_items[path].present THEN cz_current_size
                               ELSE (cz_current_size + size) % SIZE_MOD
         /\ cz_ret' = 0

\* file_io_enhanced_remove_from_cache: the item is unlinked and
\* current_size shrinks by the size the item has now
SizeRemove(path) ==
    /\ cz_items' = [cz_items EXCEPT ![path] = NoSizedItem]
    /\ cz_current_size' = IF cz_items[path].present
                          THEN (cz_current_size - cz_items[path].size) % SIZE_MOD
                          ELSE cz_current_size
    /\ UNCHANGED cz_ret

(***************************************************************************)
(* file_io_enhanced.c: what the cache holds for a path after puts, and     *)
(* what a get returns                                                      *)
(*                                                                         *)
(* The items are one chain; a lookup takes the first item of the path.     *)
(* File contents are sequences over two byte values.                       *)
(***************************************************************************)
MaxPutPaths == 2
MaxContentLen == 2
MaxPuts == 2
PutPaths == 1..MaxPutPaths
PutBytes == {1, 2}
Contents == UNION {[1..n -> PutBytes] : n \in 0..MaxContentLen}
\* g_config.max_file_size, in bytes of this part
put_file_limit == 1

NoPut == [count |-> 0, data |-> <<>>]
NoGet == [hit |-> FALSE, path |-> 0, data |-> <<>>, size |-> 0]

PutInit ==
    /\ pt_chain = <<>>
    /\ pt_last = [p \in PutPaths |-> NoPut]
    /\ pt_got = NoGet

PutOff == PutInit

\* the first item of the chain whose path is path, 0 for none
FirstItem(chain, path) ==
    IF \E i \in DOMAIN chain : chain[i].path = path
    THEN CHOOSE i \in DOMAIN chain :
             /\ chain[i].path = path
             /\ \A j \in DOMAIN chain : chain[j].path = path => i <= j
    ELSE 0

\* "Update existing item": the old data is freed, the new data copied in
UpdatedItem_stale(item, data) == item
UpdatedItem(item, data) == [item EXCEPT !.data = data, !.size = Len(data)]

\* file_io_enhanced_add_to_cache: the chain after the call
add_to_cache(chain, path, data) ==
    LET i == FirstItem(chain, path)
    IN  IF i # 0 THEN [chain EXCEPT ![i] = UpdatedItem(chain[i], data)]
        ELSE <<[path |-> path, data |-> data, size |-> Len(data)]>> \o chain

CachePut(path, data) ==
    /\ pt_last[path].count < MaxPuts \/ Len(data) > put_file_limit
    /\ IF Len(data) > put_file_limit
       THEN UNCHANGED <<pt_chain, pt_last>>
       ELSE /\ pt_chain' = add_to_cache(pt_chain, path, data)
            /\ pt_last' = [pt_last EXCEPT ![path] = [count |-> @.count + 1, data |-> data]]
    /\ pt_got' = NoGet

\* file_io_enhanced_get_from_cache: the data and size of the first valid
\* item of the path, or NULL
CacheGet(path) ==
    /\ LET i == FirstItem(pt_chain, path)
       IN  pt_got' = IF i = 0 THEN NoGet
                     ELSE [hit |-> TRUE, path |-> path, data |-> pt_chain[i].data,
                           size |-> pt_chain[i].size]
    /\ UNCHANGED <<pt_chain, pt_last>>

\* file_io_enhanced_remove_from_cache: the first item of the path is unlinked
CacheRemove(path) ==
    /\ LET i == FirstItem(pt_chain, path)
       IN  pt_chain' = IF i = 0 THEN pt_chain
                       ELSE SubSeq(pt_chain, 1, i - 1) \o SubSeq(pt_chain, i + 1, Len(pt_chain))
    /\ pt_last' = [pt_last EXCEPT ![path] = NoPut]
    /\ pt_got' = NoGet

(***************************************************************************)
(* file_io_enhanced.c: a cached file that changes on disk, and what        *)
(* file_io_enhanced_send_file sends for it                                 *)
(***************************************************************************)
MaxStaleClock == 2
NoCached == [present |-> FALSE, data |-> <<>>, mtime |-> 0]
NoSent == [hit |-> FALSE, path |-> 0, data |-> <<>>]

StaleInit ==
    /\ sl_disk = [p \in PutPaths |-> [data |-> <<>>, mtime |-> 0]]
    /\ sl_cache = [p \in PutPaths |-> NoCached]
    /\ sl_sent = NoSent
    /\ sl_now = 0

StaleOff == StaleInit

\* the file is rewritten on disk: new bytes, st_mtime the time of the write
DiskWrite(path, data) ==
    /\ data # sl_disk[path].data
    /\ sl_disk' = [sl_disk EXCEPT ![path] = [data |-> data, mtime |-> sl_now]]
    /\ UNCHANGED <<sl_cache, sl_sent, sl_now>>

StaleTick ==
    /\ sl_now < MaxStaleClock
    /\ sl_now' = sl_now + 1
    /\ UNCHANGED <<sl_disk, sl_cache, sl_sent>>

\* file_io_enhanced_preload_file: a file that is not cached and is within
\* the size limit is read and given to file_io_enhanced_add_to_cache, which
\* records time(NULL) as the item's mtime
PreloadFile(path) ==
    /\ sl_cache' = IF sl_cache[path].present \/ Len(sl_disk[path].data) > put_file_limit
                   THEN sl_cache
                   ELSE [sl_cache EXCEPT ![path] =
                            [present |-> TRUE, data |-> sl_disk[path].data, mtime |-> sl_now]]
    /\ UNCHANGED <<sl_disk, sl_sent, sl_now>>

\* file_io_enhanced_send_file: a cache hit is written to the socket as it
\* is; on a miss the file is sent from disk by sendfile or mmap
SendFile(path) ==
    /\ sl_sent' = IF sl_cache[path].present
                  THEN [hit |-> TRUE, path |-> path, data |-> sl_cache[path].data]
                  ELSE [hit |-> FALSE, path |-> path, data |-> sl_disk[path].data]
    /\ UNCHANGED <<sl_disk, sl_cache, sl_now>>

(***************************************************************************)
(* http.c: normalize_path applied to two paths                             *)
(***************************************************************************)
MaxPairLen == 5
PairAlphabet == {SLASH, DOT, 97}

PairInit ==
    /\ pq_p \in SeqsUpTo(PairAlphabet, MaxPairLen)
    /\ pq_q \in SeqsUpTo(PairAlphabet, MaxPairLen)
    /\ pq_out = <<NullPath, NullPath>>
    /\ pq_pc = "paths"

PairOff ==
    /\ pq_p = <<>>
    /\ pq_q = <<>>
    /\ pq_out = <<NullPath, NullPath>>
    /\ pq_pc = "off"

NormalizeBoth ==
    /\ pq_pc = "paths"
    /\ pq_out' = <<normalize_path(pq_p), normalize_path(pq_q)>>
    /\ pq_pc' = "done"
    /\ UNCHANGED <<pq_p, pq_q>>

(***************************************************************************)
(* Config references: worker_reload_config on the main loop against the    *)
(* connections of the reactor thread (worker_process.c, connection.c)      *)
(***************************************************************************)
MaxConfigs == 3
MaxRefConn == 2
RefConns == 1..MaxRefConn
NoConfig == 0
\* a read through a pointer to a released record is undefined: it may still
\* see the old routes, see other data, or fault
FreedReads == {"routed", "garbage", "fault"}

RefInit ==
    /\ rc_g = 1
    /\ rc_freed = {}
    /\ rc_conn = [c \in RefConns |-> NoConfig]
    /\ rc_new = NoConfig
    /\ rc_pc = "idle"
    /\ rc_route = [c \in RefConns |-> "none"]

RefOff ==
    /\ rc_g = NoConfig
    /\ rc_freed = {}
    /\ rc_conn = [c \in RefConns |-> NoConfig]
    /\ rc_new = NoConfig
    /\ rc_pc = "off"
    /\ rc_route = [c \in RefConns |-> "none"]

\* connection_create_internal: conn->config = config, the pointer the accept
\* callback read from g_worker_ctx->config
RefAccept(c) ==
    /\ rc_pc # "off"
    /\ rc_conn[c] = NoConfig
    /\ rc_conn' = [rc_conn EXCEPT ![c] = rc_g]
    /\ rc_route' = [rc_route EXCEPT ![c] = "none"]
    /\ UNCHANGED <<rc_g, rc_freed, rc_new, rc_pc>>

\* handle_request: find_route(conn->config, conn->request.path)
RefHandleRequest(c, read) ==
    /\ rc_pc # "off"
    /\ rc_conn[c] # NoConfig
    /\ rc_route[c] # "fault"
    /\ IF rc_conn[c] \in rc_freed THEN read \in FreedReads ELSE read = "routed"
    /\ rc_route' = [rc_route EXCEPT ![c] = read]
    /\ UNCHANGED <<rc_g, rc_freed, rc_conn, rc_new, rc_pc>>

\* connection_destroy: the record goes away, the config is left alone
RefDestroy(c) ==
    /\ rc_pc # "off"
    /\ rc_conn[c] # NoConfig
    /\ rc_conn' = [rc_conn EXCEPT ![c] = NoConfig]
    /\ rc_route' = [rc_route EXCEPT ![c] = "none"]
    /\ UNCHANGED <<rc_g, rc_freed, rc_new, rc_pc>>

\* worker_reload_config: new_config = get_shared_config(), a fresh copy
WorkerReloadGet ==
    /\ rc_pc = "idle"
    /\ rc_g < MaxConfigs
    /\ rc_new' = rc_g + 1
    /\ rc_pc' = "got"
    /\ UNCHANGED <<rc_g, rc_freed, rc_conn, rc_route>>

\* worker_reload_config: free_config(g_worker_ctx->config)
WorkerReloadFree ==
    /\ rc_pc = "got"
    /\ rc_freed' = rc_freed \cup {rc_g}
    /\ rc_pc' = "freed"
    /\ UNCHANGED <<rc_g, rc_conn, rc_new, rc_route>>

\* worker_reload_config: g_worker_ctx->config = new_config
WorkerReloadAssign ==
    /\ rc_pc = "freed"
    /\ rc_g' = rc_new
    /\ rc_new' = NoConfig
    /\ rc_pc' = "idle"
    /\ UNCHANGED <<rc_freed, rc_conn, rc_route>>

(***************************************************************************)
(* rewrite_path and the upstream request line (proxy.c)                    *)
(***************************************************************************)
MaxRewritePath == 4
MaxRewritePrefix == 3
RewriteAlphabet == {SLASH, 97}
\* request paths and configured prefixes both begin with a slash
SlashPaths(n) == {p \in SeqsUpTo(RewriteAlphabet, n) : Len(p) > 0 /\ p[1] = SLASH}

\* rewrite_path: the path with the prefix removed, "/" when nothing is left,
\* the path itself when it does not begin with the prefix
rewrite_path(original_path, prefix) ==
    LET prefix_len == Len(prefix)
        path_len == Len(original_path)
    IN  IF ~strncmp_eq(original_path, prefix, prefix_len) THEN original_path
        ELSE IF path_len <= prefix_len THEN <<SLASH>>
        ELSE SubSeq(original_path, prefix_len + 1, path_len)

RewriteInit ==
    /\ rw_path \in SlashPaths(MaxRewritePath)
    /\ rw_prefix \in SlashPaths(MaxRewritePrefix)
    /\ rw_out = <<>>
    /\ rw_pc = "request"

RewriteOff ==
    /\ rw_path = <<>>
    /\ rw_prefix = <<>>
    /\ rw_out = <<>>
    /\ rw_pc = "off"

\* proxy_request: new_path = rewrite_path(request->path, route->path_prefix),
\* then the request line "<method> <new_path> HTTP/1.1" is built from it
ProxyRequestLine ==
    /\ rw_pc = "request"
    /\ rw_out' = rewrite_path(rw_path, rw_prefix)
    /\ rw_pc' = "sent"
    /\ UNCHANGED <<rw_path, rw_prefix>>

(***************************************************************************)
(* The send loops of file_io_enhanced_send_file_sendfile and               *)
(* file_io_enhanced_send_file_mmap against a slow client                   *)
(* (file_io_enhanced.c)                                                    *)
(***************************************************************************)
MaxStallSize == 3
MaxRoom == 2
SendMethods == {"sendfile", "mmap"}

StallInit ==
    /\ sv_method \in SendMethods
    /\ sv_size \in 1..MaxStallSize
    /\ sv_sent = 0
    /\ sv_room = MaxRoom
    /\ sv_pc = "send"
    /\ sv_client = "reading"
    /\ sv_other = "pending"

StallOff ==
    /\ sv_method = "off"
    /\ sv_size = 0
    /\ sv_sent = 0
    /\ sv_room = 0
    /\ sv_pc = "off"
    /\ sv_client = "off"
    /\ sv_other = "off"

\* one pass of `while (total_sent < st.st_size)`: the system call moves n
\* bytes when the socket has room, fails for good on a closed socket, and
\* reports EAGAIN on a full one, after which the loop sleeps 1 ms and retries
SendLoopPass(n) ==
    /\ sv_pc \in {"send", "sleep"}
    /\ IF sv_pc = "sleep"
       THEN /\ sv_pc' = "send"
            /\ UNCHANGED <<sv_sent, sv_room>>
       ELSE IF sv_sent >= sv_size \/ sv_client = "closed"
       THEN /\ sv_pc' = "returned"
            /\ UNCHANGED <<sv_sent, sv_room>>
       ELSE IF sv_room = 0
       THEN /\ sv_pc' = "sleep"
            /\ UNCHANGED <<sv_sent, sv_room>>
       ELSE /\ n <= sv_room
            /\ n <= sv_size - sv_sent
            /\ sv_sent' = sv_sent + n
            /\ sv_room' = sv_room - n
            /\ sv_pc' = "send"
    /\ UNCHANGED <<sv_method, sv_size, sv_client, sv_other>>

\* file_io_enhanced_send_file_sendfile: n = sendfile(client_fd, file_fd, ...)
SendfilePass ==
    /\ sv_method = "sendfile"
    /\ \E n \in 1..MaxRoom : SendLoopPass(n)

\* file_io_enhanced_send_file_mmap: bytes_sent = write(client_fd, addr + total_sent, ...)
MmapPass ==
    /\ sv_method = "mmap"
    /\ \E n \in 1..MaxRoom : SendLoopPass(n)

\* the client takes the buffered bytes, stops reading, or closes the socket
ClientStep(next) ==
    /\ sv_client \in {"reading", "stopped"}
    /\ sv_pc # "returned"
    /\ IF next = "reading"
       THEN /\ sv_client = "reading"
            /\ sv_room < MaxRoom
            /\ sv_room' = MaxRoom
            /\ UNCHANGED sv_client
       ELSE /\ sv_client # next
            /\ next = "stopped" => sv_client = "reading"
            /\ sv_client' = next
            /\ UNCHANGED sv_room
    /\ UNCHANGED <<sv_method, sv_size, sv_sent, sv_pc, sv_other>>

\* event_loop_thread: the next ready event is dispatched once the running
\* callback has returned
ServeOther ==
    /\ sv_pc = "returned"
    /\ sv_other = "pending"
    /\ sv_other' = "served"
    /\ UNCHANGED <<sv_method, sv_size, sv_sent, sv_room, sv_pc, sv_client>>

(***************************************************************************)
(* Close and destroy counts: worker_accept_callback, connection_create,    *)
(* connection_destroy and connection_pool_destroy                          *)
(* (worker_process.c, connection.c, connection_pool.c)                     *)
(***************************************************************************)
MaxOnceConn == 3
OncePoolMax == 2
OnceConns == 1..MaxOnceConn
OnceOutcomes == {"fcntl_failed", "pool_full", "add_handler_failed", "created"}

OnceInit ==
    /\ oc_state = [c \in OnceConns |-> "unused"]
    /\ oc_closes = [c \in OnceConns |-> 0]
    /\ oc_destroys = [c \in OnceConns |-> 0]
    /\ oc_pool = <<>>
    /\ oc_phase = "running"

OnceOff ==
    /\ oc_state = [c \in OnceConns |-> "unused"]
    /\ oc_closes = [c \in OnceConns |-> 0]
    /\ oc_destroys = [c \in OnceConns |-> 0]
    /\ oc_pool = <<>>
    /\ oc_phase = "off"

\* worker_accept_callback for the accepted socket c:
\*   fcntl fails: close(client_fd);
\*   connection_pool_get_connection returns NULL at max_connections: close(client_fd);
\*   connection_create fails at event_loop_add_handler: connection_destroy(conn)
\*     closes conn->fd and frees the record, NULL comes back and the callback
\*     calls close(client_fd) as well;
\*   otherwise the record is stored in pool->connections
OnceAccept(c, outcome) ==
    /\ oc_phase = "running"
    /\ oc_state[c] = "unused"
    /\ outcome # "fcntl_failed" => ((outcome = "pool_full") = (Len(oc_pool) >= OncePoolMax))
    /\ IF outcome \in {"fcntl_failed", "pool_full"}
       THEN /\ oc_closes' = [oc_closes EXCEPT ![c] = @ + 1]
            /\ oc_state' = [oc_state EXCEPT ![c] = "none"]
            /\ UNCHANGED <<oc_destroys, oc_pool>>
       ELSE IF outcome = "add_handler_failed"
       THEN /\ oc_closes' = [oc_closes EXCEPT ![c] = @ + 2]
            /\ oc_destroys' = [oc_destroys EXCEPT ![c] = @ + 1]
            /\ oc_state' = [oc_state EXCEPT ![c] = "freed"]
            /\ UNCHANGED oc_pool
       ELSE /\ oc_state' = [oc_state EXCEPT ![c] = "live"]
            /\ oc_pool' = Append(oc_pool, c)
            /\ UNCHANGED <<oc_closes, oc_destroys>>
    /\ UNCHANGED oc_phase

\* connection_destroy with keep_alive 0: connection_destroy_internal closes
\* the fd and frees the record; pool->connections keeps its pointer
OnceDestroy(c) ==
    /\ oc_phase = "running"
    /\ oc_state[c] = "live"
    /\ oc_closes' = [oc_closes EXCEPT ![c] = @ + 1]
    /\ oc_destroys' = [oc_destroys EXCEPT ![c] = @ + 1]
    /\ oc_state' = [oc_state EXCEPT ![c] = "freed"]
    /\ UNCHANGED <<oc_pool, oc_phase>>

\* the records pool->connections[0 .. connection_count-1] point at
PoolEntries == {oc_pool[i] : i \in 1..Len(oc_pool)}

\* connection_pool_destroy: connection_destroy on every stored pointer. A
\* pointer to a record already freed is dangling: the second destroy runs on
\* released memory, which either still shows fd = -1 (no close) or has been
\* handed out again and shows an fd (a second close)
ConnectionPoolDestroy(reused) ==
    /\ oc_phase = "running"
    /\ oc_phase' = "stopped"
    /\ oc_destroys' = [c \in OnceConns |->
           IF c \in PoolEntries THEN oc_destroys[c] + 1 ELSE oc_destroys[c]]
    /\ oc_closes' = [c \in OnceConns |->
           IF c \in PoolEntries /\ (oc_state[c] = "live" \/ reused)
           THEN oc_closes[c] + 1 ELSE oc_closes[c]]
    /\ oc_state' = [c \in OnceConns |->
           IF c \in PoolEntries THEN "freed" ELSE oc_state[c]]
    /\ oc_pool' = <<>>

(***************************************************************************)
(* Specifications                                                          *)
(***************************************************************************)
InitPath == PathInit /\ ParseOff /\ StaticOff /\ LimitInit /\ WorkerInit /\ AuthOff /\ LoopOff /\ CacheOff /\ ConnOff /\ SendOff /\ DrainOff /\ RelayOff /\ RegOff /\ DestroyOff /\ AdmitOff /\ CompareOff /\ ReloadOff /\ SizeOff /\ PutOff /\ StaleOff /\ PairOff /\ RefOff /\ RewriteOff /\ StallOff /\ OnceOff
NextPath == NormalizeUri /\ UNCHANGED <<parseVars, staticVars, limitVars, workerVars, authVars, loopVars, cacheVars, connVars, sendVars, drainVars, relayVars, regVars, destroyVars, admitVars, compareVars, reloadVars, sizeVars, putVars, staleVars, pairVars, refVars, rewriteVars, stallVars, onceVars>>
SpecPath == InitPath /\ [][NextPath]_vars

InitParse == ParseInit /\ PathOff /\ StaticOff /\ LimitInit /\ WorkerInit /\ AuthOff /\ LoopOff /\ CacheOff /\ ConnOff /\ SendOff /\ DrainOff /\ RelayOff /\ RegOff /\ DestroyOff /\ AdmitOff /\ CompareOff /\ ReloadOff /\ SizeOff /\ PutOff /\ StaleOff /\ PairOff /\ RefOff /\ RewriteOff /\ StallOff /\ OnceOff
NextParse == ParseRequest /\ UNCHANGED <<pathVars, staticVars, limitVars, workerVars, authVars, loopVars, cacheVars, connVars, sendVars, drainVars, relayVars, regVars, destroyVars, admitVars, compareVars, reloadVars, sizeVars, putVars, staleVars, pairVars, refVars, rewriteVars, stallVars, onceVars>>
SpecParse == InitParse /\ [][NextParse]_vars

InitStatic == StaticInit /\ PathOff /\ ParseOff /\ LimitInit /\ WorkerInit /\ AuthOff /\ LoopOff /\ CacheOff /\ ConnOff /\ SendOff /\ DrainOff /\ RelayOff /\ RegOff /\ DestroyOff /\ AdmitOff /\ CompareOff /\ ReloadOff /\ SizeOff /\ PutOff /\ StaleOff /\ PairOff /\ RefOff /\ RewriteOff /\ StallOff /\ OnceOff
NextStatic == HandleLocalFile /\ UNCHANGED <<pathVars, parseVars, limitVars, workerVars, authVars, loopVars, cacheVars, connVars, sendVars, drainVars, relayVars, regVars, destroyVars, admitVars, compareVars, reloadVars, sizeVars, putVars, staleVars, pairVars, refVars, rewriteVars, stallVars, onceVars>>
SpecStatic == InitStatic /\ [][NextStatic]_vars

InitLimit == LimitInit /\ PathOff /\ ParseOff /\ StaticOff /\ WorkerInit /\ AuthOff /\ LoopOff /\ CacheOff /\ ConnOff /\ SendOff /\ DrainOff /\ RelayOff /\ RegOff /\ DestroyOff /\ AdmitOff /\ CompareOff /\ ReloadOff /\ SizeOff /\ PutOff /\ StaleOff /\ PairOff /\ RefOff /\ RewriteOff /\ StallOff /\ OnceOff
NextLimit ==
    /\ \/ Tick
       \/ \E ip \in IPs : CheckConnectionLimit(ip)
       \/ \E ip \in IPs : ReleaseConnection(ip)
       \/ \E ip \in IPs : CheckRateLimit(ip)
    /\ UNCHANGED <<pathVars, parseVars, staticVars, workerVars, authVars, loopVars, cacheVars, connVars, sendVars, drainVars, relayVars, regVars, destroyVars, admitVars, compareVars, reloadVars, sizeVars, putVars, staleVars, pairVars, refVars, rewriteVars, stallVars, onceVars>>
SpecLimit == InitLimit /\ [][NextLimit]_vars

\* the worker process: its listener callback and its connections
Init == WorkerInit /\ LimitInit /\ PathOff /\ ParseOff /\ StaticOff /\ AuthOff /\ LoopOff /\ CacheOff /\ ConnOff /\ SendOff /\ DrainOff /\ RelayOff /\ RegOff /\ DestroyOff /\ AdmitOff /\ CompareOff /\ ReloadOff /\ SizeOff /\ PutOff /\ StaleOff /\ PairOff /\ RefOff /\ RewriteOff /\ StallOff /\ OnceOff
Next ==
    /\ \/ \E ip \in IPs, fd \in FDs, o \in AcceptOutcomes : WorkerAccept(ip, fd, o)
       \/ \E fd \in FDs : ConnectionDestroy(fd)
    /\ UNCHANGED <<pathVars, parseVars, staticVars, authVars, loopVars, cacheVars, connVars, sendVars, drainVars, relayVars, regVars, destroyVars, admitVars, compareVars, reloadVars, sizeVars, putVars, staleVars, pairVars, refVars, rewriteVars, stallVars, onceVars>>
Spec == Init /\ [][Next]_vars

\* requests handled while the clock runs
InitAuth == AuthInit /\ LimitInit /\ WorkerInit /\ PathOff /\ ParseOff /\ StaticOff /\ LoopOff /\ CacheOff /\ ConnOff /\ SendOff /\ DrainOff /\ RelayOff /\ RegOff /\ DestroyOff /\ AdmitOff /\ CompareOff /\ ReloadOff /\ SizeOff /\ PutOff /\ StaleOff /\ PairOff /\ RefOff /\ RewriteOff /\ StallOff /\ OnceOff
NextAuth ==
    /\ \/ Tick /\ UNCHANGED authVars
       \/ HandleRequest
       \/ RequestDone
    /\ UNCHANGED <<pathVars, parseVars, staticVars, workerVars, loopVars, cacheVars, connVars, sendVars, drainVars, relayVars, regVars, destroyVars, admitVars, compareVars, reloadVars, sizeVars, putVars, staleVars, pairVars, refVars, rewriteVars, stallVars, onceVars>>
SpecAuth == InitAuth /\ [][NextAuth]_vars

\* the event loop thread beside the main thread
InitLoop == LoopInit /\ LimitInit /\ WorkerInit /\ AuthOff /\ PathOff /\ ParseOff /\ StaticOff /\ CacheOff /\ ConnOff /\ SendOff /\ DrainOff /\ RelayOff /\ RegOff /\ DestroyOff /\ AdmitOff /\ CompareOff /\ ReloadOff /\ SizeOff /\ PutOff /\ StaleOff /\ PairOff /\ RefOff /\ RewriteOff /\ StallOff /\ OnceOff
NextLoop ==
    /\ \/ EpollWait
       \/ DispatchBegin
       \/ \E e \in CallbackEffects : Callback(e)
       \/ DispatchEnd
       \/ GracefulShutdown
    /\ UNCHANGED <<pathVars, parseVars, staticVars, limitVars, workerVars, authVars, cacheVars, connVars, sendVars, drainVars, relayVars, regVars, destroyVars, admitVars, compareVars, reloadVars, sizeVars, putVars, staleVars, pairVars, refVars, rewriteVars, stallVars, onceVars>>
SpecLoop == InitLoop /\ [][NextLoop]_vars

\* the file cache used by senders beside the sweeper thread
InitCache == CacheInit /\ LimitInit /\ WorkerInit /\ AuthOff /\ PathOff /\ ParseOff /\ StaticOff /\ LoopOff /\ ConnOff /\ SendOff /\ DrainOff /\ RelayOff /\ RegOff /\ DestroyOff /\ AdmitOff /\ CompareOff /\ ReloadOff /\ SizeOff /\ PutOff /\ StaleOff /\ PairOff /\ RefOff /\ RewriteOff /\ StallOff /\ OnceOff
NextCache ==
    /\ \/ \E p \in CachePaths : AddToCache(p)
       \/ \E s \in Senders, p \in CachePaths : GetFromCache(s, p)
       \/ \E s \in Senders : SendFromCacheDone(s)
       \/ CacheCleanup
       \/ \E p \in CachePaths : RemoveFromCache(p)
       \/ CacheClock
    /\ UNCHANGED <<pathVars, parseVars, staticVars, workerVars, authVars, loopVars, connVars, sendVars, drainVars, relayVars, regVars, destroyVars, admitVars, compareVars, reloadVars, sizeVars, putVars, staleVars, pairVars, refVars, rewriteVars, stallVars, onceVars>>
SpecCache == InitCache /\ [][NextCache]_vars

\* one connection, its client and the event loop that dispatches to it
InitConn == ConnInit /\ LimitInit /\ WorkerInit /\ AuthOff /\ PathOff /\ ParseOff /\ StaticOff /\ LoopOff /\ CacheOff /\ SendOff /\ DrainOff /\ RelayOff /\ RegOff /\ DestroyOff /\ AdmitOff /\ CompareOff /\ ReloadOff /\ SizeOff /\ PutOff /\ StaleOff /\ PairOff /\ RefOff /\ RewriteOff /\ StallOff /\ OnceOff
NextConn ==
    /\ \/ \E n \in 1..Len(POST_REQUEST \o GET_REQUEST) : ClientSend(n)
       \/ ClientClose
       \/ ReadCallback
       \/ ConnTick
    /\ UNCHANGED <<pathVars, parseVars, staticVars, workerVars, authVars, loopVars, cacheVars, sendVars, drainVars, relayVars, regVars, destroyVars, admitVars, compareVars, reloadVars, sizeVars, putVars, staleVars, pairVars, refVars, rewriteVars, stallVars, onceVars>>
SpecConn == InitConn /\ [][NextConn]_vars

\* the step of NextConn that takes the pending read event: ReadCallback
EventDispatched == conn.state = "open" /\ ev_ready /\ ev_ready' = FALSE

\* the event loop runs the callback of every pending event; nothing else is
\* scheduled for a connection
SpecConnFair == SpecConn /\ WF_ev_ready(EventDispatched)

\* the body transfer of a static response
InitSend == SendInit /\ LimitInit /\ WorkerInit /\ AuthOff /\ PathOff /\ ParseOff /\ StaticOff /\ LoopOff /\ CacheOff /\ ConnOff /\ DrainOff /\ RelayOff /\ RegOff /\ DestroyOff /\ AdmitOff /\ CompareOff /\ ReloadOff /\ SizeOff /\ PutOff /\ StaleOff /\ PairOff /\ RefOff /\ RewriteOff /\ StallOff /\ OnceOff
NextSend ==
    SendFileContent /\ UNCHANGED <<pathVars, parseVars, staticVars, limitVars, workerVars, authVars, loopVars, cacheVars, connVars, drainVars, relayVars, regVars, destroyVars, admitVars, compareVars, reloadVars, sizeVars, putVars, staleVars, pairVars, refVars, rewriteVars, stallVars, onceVars>>
SpecSend == InitSend /\ [][NextSend]_vars

\* a worker that accepts and closes connections and is told to shut down
InitDrain == DrainInit /\ LimitInit /\ WorkerInit /\ AuthOff /\ PathOff /\ ParseOff /\ StaticOff /\ LoopOff /\ CacheOff /\ ConnOff /\ SendOff /\ RelayOff /\ RegOff /\ DestroyOff /\ AdmitOff /\ CompareOff /\ ReloadOff /\ SizeOff /\ PutOff /\ StaleOff /\ PairOff /\ RefOff /\ RewriteOff /\ StallOff /\ OnceOff
NextDrain ==
    /\ \/ SigTerm
       \/ \E fd \in DrainFds, o \in AcceptOutcomes : DrainAccept(fd, o)
       \/ \E fd \in DrainFds : DrainDestroy(fd)
       \/ ShutdownBegin
       \/ DrainSleep
       \/ DrainEnd
       \/ WorkerCleanup
    /\ UNCHANGED <<pathVars, parseVars, staticVars, limitVars, workerVars, authVars, loopVars, cacheVars, connVars, sendVars, relayVars, regVars, destroyVars, admitVars, compareVars, reloadVars, sizeVars, putVars, staleVars, pairVars, refVars, rewriteVars, stallVars, onceVars>>
SpecDrain == InitDrain /\ [][NextDrain]_vars

\* connections served by the loop thread, some of them proxied
InitRelay == RelayInit /\ LimitInit /\ WorkerInit /\ AuthOff /\ PathOff /\ ParseOff /\ StaticOff /\ LoopOff /\ CacheOff /\ ConnOff /\ SendOff /\ DrainOff /\ RegOff /\ DestroyOff /\ AdmitOff /\ CompareOff /\ ReloadOff /\ SizeOff /\ PutOff /\ StaleOff /\ PairOff /\ RefOff /\ RewriteOff /\ StallOff /\ OnceOff
NextRelay ==
    /\ \/ \E fd \in RelayFds : RequestArrives(fd)
       \/ \E fd \in RelayFds : LoopDispatch(fd)
       \/ \E o \in PollOutcomes, d \in DataDelays : RelayPoll(o, d)
    /\ UNCHANGED <<pathVars, parseVars, staticVars, limitVars, workerVars, authVars, loopVars, cacheVars, connVars, sendVars, drainVars, regVars, destroyVars, admitVars, compareVars, reloadVars, sizeVars, putVars, staleVars, pairVars, refVars, rewriteVars, stallVars, onceVars>>
SpecRelay == InitRelay /\ [][NextRelay]_vars

\* registration calls on the reactor
InitReg == RegInit /\ LimitInit /\ WorkerInit /\ AuthOff /\ PathOff /\ ParseOff /\ StaticOff /\ LoopOff /\ CacheOff /\ ConnOff /\ SendOff /\ DrainOff /\ RelayOff /\ DestroyOff /\ AdmitOff /\ CompareOff /\ ReloadOff /\ SizeOff /\ PutOff /\ StaleOff /\ PairOff /\ RefOff /\ RewriteOff /\ StallOff /\ OnceOff
NextReg ==
    /\ \/ \E fd \in RegFds : RegAdd(fd)
       \/ \E fd \in RegFds : RegMod(fd)
       \/ \E fd \in RegFds : RegDel(fd)
    /\ UNCHANGED <<pathVars, parseVars, staticVars, limitVars, workerVars, authVars, loopVars, cacheVars, connVars, sendVars, drainVars, relayVars, destroyVars, admitVars, compareVars, reloadVars, sizeVars, putVars, staleVars, pairVars, refVars, rewriteVars, stallVars, onceVars>>
SpecReg == InitReg /\ [][NextReg]_vars

\* connections created and destroyed
InitDestroy == DestroyInit /\ LimitInit /\ WorkerInit /\ AuthOff /\ PathOff /\ ParseOff /\ StaticOff /\ LoopOff /\ CacheOff /\ ConnOff /\ SendOff /\ DrainOff /\ RelayOff /\ RegOff /\ AdmitOff /\ CompareOff /\ ReloadOff /\ SizeOff /\ PutOff /\ StaleOff /\ PairOff /\ RefOff /\ RewriteOff /\ StallOff /\ OnceOff
NextDestroy ==
    /\ \/ \E c \in DestroyConns, ip \in DestroyIps, counted \in BOOLEAN : DestroyAccept(c, ip, counted)
       \/ \E c \in DestroyConns : DestroyBegin(c)
       \/ DestroyStep
    /\ UNCHANGED <<pathVars, parseVars, staticVars, limitVars, workerVars, authVars, loopVars, cacheVars, connVars, sendVars, drainVars, relayVars, regVars, admitVars, compareVars, reloadVars, sizeVars, putVars, staleVars, pairVars, refVars, rewriteVars, stallVars, onceVars>>
SpecDestroy == InitDestroy /\ [][NextDestroy]_vars

\* admissions and releases in any order
InitAdmit == AdmitInit /\ LimitInit /\ WorkerInit /\ AuthOff /\ PathOff /\ ParseOff /\ StaticOff /\ LoopOff /\ CacheOff /\ ConnOff /\ SendOff /\ DrainOff /\ RelayOff /\ RegOff /\ DestroyOff /\ CompareOff /\ ReloadOff /\ SizeOff /\ PutOff /\ StaleOff /\ PairOff /\ RefOff /\ RewriteOff /\ StallOff /\ OnceOff
NextAdmit ==
    /\ \/ \E ip \in IPs : Admit(ip)
       \/ \E ip \in IPs : Release(ip)
       \/ AdmitTick
    /\ UNCHANGED <<pathVars, parseVars, staticVars, workerVars, authVars, loopVars, cacheVars, connVars, sendVars, drainVars, relayVars, regVars, destroyVars, compareVars, reloadVars, sizeVars, putVars, staleVars, pairVars, refVars, rewriteVars, stallVars, onceVars>>
SpecAdmit == InitAdmit /\ [][NextAdmit]_vars

\* the token comparison applied to a pair of tokens
InitCompare == CompareInit /\ LimitInit /\ WorkerInit /\ AuthOff /\ PathOff /\ ParseOff /\ StaticOff /\ LoopOff /\ CacheOff /\ ConnOff /\ SendOff /\ DrainOff /\ RelayOff /\ RegOff /\ DestroyOff /\ AdmitOff /\ ReloadOff /\ SizeOff /\ PutOff /\ StaleOff /\ PairOff /\ RefOff /\ RewriteOff /\ StallOff /\ OnceOff
NextCompare ==
    /\ TokenCompare
    /\ UNCHANGED <<pathVars, parseVars, staticVars, limitVars, workerVars, authVars, loopVars, cacheVars, connVars, sendVars, drainVars, relayVars, regVars, destroyVars, admitVars, reloadVars, sizeVars, putVars, staleVars, pairVars, refVars, rewriteVars, stallVars, onceVars>>
SpecCompare == InitCompare /\ [][NextCompare]_vars

\* a reload concurrent with validations
InitReload == ReloadInit /\ LimitInit /\ WorkerInit /\ AuthOff /\ PathOff /\ ParseOff /\ StaticOff /\ LoopOff /\ CacheOff /\ ConnOff /\ SendOff /\ DrainOff /\ RelayOff /\ RegOff /\ DestroyOff /\ AdmitOff /\ CompareOff /\ SizeOff /\ PutOff /\ StaleOff /\ PairOff /\ RefOff /\ RewriteOff /\ StallOff /\ OnceOff
NextReload ==
    /\ \/ ReloadLock
       \/ \E ok \in BOOLEAN : ReloadLoad(ok)
       \/ ReloadSwap
       \/ ReloadFree
       \/ \E v \in Validators : ValidateLock(v)
       \/ \E v \in Validators : ValidateCopyKey(v)
       \/ \E v \in Validators : ValidateCopySecret(v)
       \/ \E v \in Validators : ValidateUse(v)
    /\ UNCHANGED <<pathVars, parseVars, staticVars, limitVars, workerVars, authVars, loopVars, cacheVars, connVars, sendVars, drainVars, relayVars, regVars, destroyVars, admitVars, compareVars, sizeVars, putVars, staleVars, pairVars, refVars, rewriteVars, stallVars, onceVars>>
SpecReload == InitReload /\ [][NextReload]_vars

\* puts and removals on the cache
InitSize == SizeInit /\ LimitInit /\ WorkerInit /\ AuthOff /\ PathOff /\ ParseOff /\ StaticOff /\ LoopOff /\ CacheOff /\ ConnOff /\ SendOff /\ DrainOff /\ RelayOff /\ RegOff /\ DestroyOff /\ AdmitOff /\ CompareOff /\ ReloadOff /\ PutOff /\ StaleOff /\ PairOff /\ RefOff /\ RewriteOff /\ StallOff /\ OnceOff
NextSize ==
    /\ \/ \E p \in SizePaths, n \in 0..MaxPutSize : SizeAdd(p, n)
       \/ \E p \in SizePaths : SizeRemove(p)
    /\ UNCHANGED <<pathVars, parseVars, staticVars, limitVars, workerVars, authVars, loopVars, cacheVars, connVars, sendVars, drainVars, relayVars, regVars, destroyVars, admitVars, compareVars, reloadVars, putVars, staleVars, pairVars, refVars, rewriteVars, stallVars, onceVars>>
SpecSize == InitSize /\ [][NextSize]_vars

\* puts, gets and removals on the cache
InitPut == PutInit /\ LimitInit /\ WorkerInit /\ AuthOff /\ PathOff /\ ParseOff /\ StaticOff /\ LoopOff /\ CacheOff /\ ConnOff /\ SendOff /\ DrainOff /\ RelayOff /\ RegOff /\ DestroyOff /\ AdmitOff /\ CompareOff /\ ReloadOff /\ SizeOff /\ StaleOff /\ PairOff /\ RefOff /\ RewriteOff /\ StallOff /\ OnceOff
NextPut ==
    /\ \/ \E p \in PutPaths, b \in Contents : CachePut(p, b)
       \/ \E p \in PutPaths : CacheGet(p)
       \/ \E p \in PutPaths : CacheRemove(p)
    /\ UNCHANGED <<pathVars, parseVars, staticVars, limitVars, workerVars, authVars, loopVars, cacheVars, connVars, sendVars, drainVars, relayVars, regVars, destroyVars, admitVars, compareVars, reloadVars, sizeVars, staleVars, pairVars, refVars, rewriteVars, stallVars, onceVars>>
SpecPut == InitPut /\ [][NextPut]_vars

\* files preloaded, rewritten and sent
InitStale == StaleInit /\ LimitInit /\ WorkerInit /\ AuthOff /\ PathOff /\ ParseOff /\ StaticOff /\ LoopOff /\ CacheOff /\ ConnOff /\ SendOff /\ DrainOff /\ RelayOff /\ RegOff /\ DestroyOff /\ AdmitOff /\ CompareOff /\ ReloadOff /\ SizeOff /\ PutOff /\ PairOff /\ RefOff /\ RewriteOff /\ StallOff /\ OnceOff
NextStale ==
    /\ \/ \E p \in PutPaths, b \in Contents : DiskWrite(p, b)
       \/ StaleTick
       \/ \E p \in PutPaths : PreloadFile(p)
       \/ \E p \in PutPaths : SendFile(p)
    /\ UNCHANGED <<pathVars, parseVars, staticVars, limitVars, workerVars, authVars, loopVars, cacheVars, connVars, sendVars, drainVars, relayVars, regVars, destroyVars, admitVars, compareVars, reloadVars, sizeVars, putVars, pairVars, refVars, rewriteVars, stallVars, onceVars>>
SpecStale == InitStale /\ [][NextStale]_vars

\* normalize_path on pairs of paths
InitPair == PairInit /\ LimitInit /\ WorkerInit /\ AuthOff /\ PathOff /\ ParseOff /\ StaticOff /\ LoopOff /\ CacheOff /\ ConnOff /\ SendOff /\ DrainOff /\ RelayOff /\ RegOff /\ DestroyOff /\ AdmitOff /\ CompareOff /\ ReloadOff /\ SizeOff /\ PutOff /\ StaleOff /\ RefOff /\ RewriteOff /\ StallOff /\ OnceOff
NextPair ==
    /\ NormalizeBoth
    /\ UNCHANGED <<pathVars, parseVars, staticVars, limitVars, workerVars, authVars, loopVars, cacheVars, connVars, sendVars, drainVars, relayVars, regVars, destroyVars, admitVars, compareVars, reloadVars, sizeVars, putVars, staleVars, refVars, rewriteVars, stallVars, onceVars>>
SpecPair == InitPair /\ [][NextPair]_vars

InitRef == RefInit /\ LimitInit /\ WorkerInit /\ AuthOff /\ PathOff /\ ParseOff /\ StaticOff /\ LoopOff /\ CacheOff /\ ConnOff /\ SendOff /\ DrainOff /\ RelayOff /\ RegOff /\ DestroyOff /\ AdmitOff /\ CompareOff /\ ReloadOff /\ SizeOff /\ PutOff /\ StaleOff /\ PairOff /\ RewriteOff /\ StallOff /\ OnceOff
NextRef ==
    /\ \/ \E c \in RefConns : RefAccept(c)
       \/ \E c \in RefConns, read \in FreedReads : RefHandleRequest(c, read)
       \/ \E c \in RefConns : RefDestroy(c)
       \/ WorkerReloadGet
       \/ WorkerReloadFree
       \/ WorkerReloadAssign
    /\ UNCHANGED <<pathVars, parseVars, staticVars, limitVars, workerVars, authVars, loopVars, cacheVars, connVars, sendVars, drainVars, relayVars, regVars, destroyVars, admitVars, compareVars, reloadVars, sizeVars, putVars, staleVars, pairVars, rewriteVars, stallVars, onceVars>>
SpecRef == InitRef /\ [][NextRef]_vars

InitRewrite == RewriteInit /\ LimitInit /\ WorkerInit /\ AuthOff /\ PathOff /\ ParseOff /\ StaticOff /\ LoopOff /\ CacheOff /\ ConnOff /\ SendOff /\ DrainOff /\ RelayOff /\ RegOff /\ DestroyOff /\ AdmitOff /\ CompareOff /\ ReloadOff /\ SizeOff /\ PutOff /\ StaleOff /\ PairOff /\ RefOff /\ StallOff /\ OnceOff
NextRewrite ==
    /\ ProxyRequestLine
    /\ UNCHANGED <<pathVars, parseVars, staticVars, limitVars, workerVars, authVars, loopVars, cacheVars, connVars, sendVars, drainVars, relayVars, regVars, destroyVars, admitVars, compareVars, reloadVars, sizeVars, putVars, staleVars, pairVars, refVars, stallVars, onceVars>>
SpecRewrite == InitRewrite /\ [][NextRewrite]_vars

InitStall == StallInit /\ LimitInit /\ WorkerInit /\ AuthOff /\ PathOff /\ ParseOff /\ StaticOff /\ LoopOff /\ CacheOff /\ ConnOff /\ SendOff /\ DrainOff /\ RelayOff /\ RegOff /\ DestroyOff /\ AdmitOff /\ CompareOff /\ ReloadOff /\ SizeOff /\ PutOff /\ StaleOff /\ PairOff /\ RefOff /\ RewriteOff /\ OnceOff
NextStall ==
    /\ \/ SendfilePass
       \/ MmapPass
       \/ \E next \in {"reading", "stopped", "closed"} : ClientStep(next)
       \/ ServeOther
    /\ UNCHANGED <<pathVars, parseVars, staticVars, limitVars, workerVars, authVars, loopVars, cacheVars, connVars, sendVars, drainVars, relayVars, regVars, destroyVars, admitVars, compareVars, reloadVars, sizeVars, putVars, staleVars, pairVars, refVars, rewriteVars, onceVars>>
\* the reactor thread keeps running: the send loop and the dispatch of the
\* next event are taken whenever they can be; the client owes nothing
SpecStall ==
    /\ InitStall
    /\ [][NextStall]_vars
    /\ WF_stallVars(SendfilePass)
    /\ WF_stallVars(MmapPass)
    /\ WF_stallVars(ServeOther)

InitOnce == OnceInit /\ LimitInit /\ WorkerInit /\ AuthOff /\ PathOff /\ ParseOff /\ StaticOff /\ LoopOff /\ CacheOff /\ ConnOff /\ SendOff /\ DrainOff /\ RelayOff /\ RegOff /\ DestroyOff /\ AdmitOff /\ CompareOff /\ ReloadOff /\ SizeOff /\ PutOff /\ StaleOff /\ PairOff /\ RefOff /\ RewriteOff /\ StallOff
NextOnce ==
    /\ \/ \E c \in OnceConns, outcome \in OnceOutcomes : OnceAccept(c, outcome)
       \/ \E c \in OnceConns : OnceDestroy(c)
       \/ \E reused \in BOOLEAN : ConnectionPoolDestroy(reused)
    /\ UNCHANGED <<pathVars, parseVars, staticVars, limitVars, workerVars, authVars, loopVars, cacheVars, connVars, sendVars, drainVars, relayVars, regVars, destroyVars, admitVars, compareVars, reloadVars, sizeVars, putVars, staleVars, pairVars, refVars, rewriteVars, stallVars>>
SpecOnce == InitOnce /\ [][NextOnce]_vars

(***************************************************************************)
(* Claims                                                                  *)
(***************************************************************************)
\* f is root itself or lies below it, compared segment-wise
PathWithin(f, root) ==
    \/ f = root
    \/ /\ Len(f) > Len(root)
       /\ SubSeq(f, 1, Len(root)) = root
       /\ f[Len(root) + 1] = SLASH

\* the canonical form of the candidate path handle_local_file builds
StaticCandidate ==
    realpath(sf_fs, sf_rq.route.local_path \o <<SLASH>>
                    \o RelativePath(sf_rq.path, sf_rq.route.path_prefix))

\* C1: the file the static responder opens has a canonical path contained,
\* as a path, under the canonical local_root; a candidate that resolves
\* outside local_root is answered 403 and is never opened.
C1_OpenedFileUnderRoot ==
    sf_pc = "done" =>
        LET root == realpath(sf_fs, sf_rq.route.local_path)
        IN  /\ sf_res.opened # NoFile => PathWithin(sf_res.opened, root)
            /\ (sf_rq.method = "GET" /\ StaticCandidate # NoFile
                  /\ ~PathWithin(StaticCandidate, root))
                 => (sf_res.status = 403 /\ sf_res.opened = NoFile)

\* the segments of a path: the runs of bytes between slashes
RECURSIVE Segments(_)
Segments(p) ==
    IF p = <<>> THEN <<>>
    ELSE LET cut == {i \in 1..Len(p) : p[i] = SLASH}
         IN  IF cut = {} THEN <<p>>
             ELSE LET k == CHOOSE i \in cut : \A j \in cut : i <= j
                  IN  <<SubSeq(p, 1, k - 1)>> \o Segments(SubSeq(p, k + 1, Len(p)))

HasDotDotSegment(p) == \E i \in 1..Len(Segments(p)) : Segments(p)[i] = <<DOT, DOT>>

\* a percent escape of p that denotes NUL or another control byte
HasEncodedControl(p) ==
    \E i \in 1..(Len(p) - 2) :
        /\ p[i] = PERCENT
        /\ HexVal(p[i + 1]) >= 0 /\ HexVal(p[i + 2]) >= 0
        /\ LET b == HexVal(p[i + 1]) * 16 + HexVal(p[i + 2]) IN b < 32 \/ b = 127

HasEncodedDanger(p) ==
    \E i \in 1..(Len(p) - 2) : p[i] = PERCENT /\ EncodedDanger(p[i + 1], p[i + 2])

\* the request paths that normalisation has to refuse
MustReject(p) ==
    \/ HasDotDotSegment(p)
    \/ \E i \in 1..Len(p) : p[i] = BACKSLASH
    \/ HasEncodedDanger(p)
    \/ HasEncodedControl(p)
    \/ HasDrivePrefix(p)

\* C2: normalisation rejects every path with a ".." segment in any position,
\* a backslash, NUL, %2e, %2f, %5c, an encoded control character or a drive
\* prefix; no such path is returned as a normalised path.
C2_DangerousPathsRejected ==
    (np_pc = "done" /\ MustReject(np_in)) => np_out.null

HasLineNamed(rq, n) == \E i \in 1..Len(rq.lines) : strcasecmp_eq(rq.lines[i].name, n)

\* C3: a request with a Transfer-Encoding header, whatever its value and its
\* position, with or without Content-Length, is rejected with a parse error.
C3_TransferEncodingRejected ==
    (ps_pc = "parsed" /\ HasLineNamed(ps_rq, "Transfer-Encoding")) => ps_res.rc = -1

HasDuplicateCritical(rq) ==
    \E i, j \in 1..Len(rq.lines) :
        /\ i < j
        /\ IsCriticalName(rq.lines[i].name)
        /\ strcasecmp_eq(rq.lines[i].name, rq.lines[j].name)
        /\ \A k \in {i, j} : rq.lines[k].value # <<>> /\ ~ValueHasControl(rq.lines[k].value)

\* C4: a request with two headers of the same case-insensitive name from the
\* critical set (each with a clean, non-empty value) is rejected with a parse
\* error, wherever the duplicate is.
C4_DuplicateCriticalRejected ==
    (ps_pc = "parsed" /\ HasDuplicateCritical(ps_rq)) => ps_res.rc = -1

\* C5: every fd the worker's accept callback accepts is passed through
\* admission before a connection record exists for it.
C5_AcceptedFdsAdmitted ==
    \A fd \in FDs : w_conn[fd] # NoIp => w_checked[fd]

\* connections[ip].active_count, 0 for an IP without a record
ActiveCount(ip) ==
    IF g_limit.conns[ip].present THEN g_limit.conns[ip].connection_count ELSE 0

LiveConnections(ip) == {fd \in FDs : w_conn[fd] = ip}

\* C6: for each peer IP, active_count equals the number of live connections
\* whose peer is that IP.
C6_ActiveCountIsLiveCount ==
    \A ip \in IPs : ActiveCount(ip) = Cardinality(LiveConnections(ip))

\* C7: within one second the rate check accepts at most rps_limit +
\* burst_limit attempts of one IP, and rejects every further attempt of
\* that IP in the same second.
C7_RateWindowBound ==
    /\ \A ip \in IPs : rl_accepted[ip] <= max_requests_per_second + max_requests_burst
    /\ rl_last.before >= max_requests_per_second + max_requests_burst => rl_last.rc = -1

\* an IP used its whole allowance in this second and its next attempt was refused
C7_Witness ==
    /\ rl_last.rc = -1
    /\ rl_last.before = max_requests_per_second + max_requests_burst
    /\ rl_accepted[rl_last.ip] = max_requests_per_second + max_requests_burst

\* what the contract asks of a request on an OAuth route, read off the
\* request as the client sent it and the clock when it was handled
Abs(n) == IF n < 0 THEN 0 - n ELSE n
SentAllOAuthHeaders == au_rq.missing = "none"
SentKnownKey == \E i \in 1..Len(AuthConfigs) : AuthConfigs[i].app_key = au_rq.key
SentTimeInWindow == Abs(au_res.at - atol(au_rq.time)) <= OAUTH_WINDOW
SentGoodToken == au_rq.token = "good"
SentAllowedPath == au_rq.uri \in {URI_p_a, URI_s_f}
OnOAuthRoute == au_res.route # 0 /\ AuthRoutes[au_res.route].auth_type = "AUTH_OAUTH"

\* C8: on a route with OAuth the static or proxy responder runs only for a
\* request with all four oauth headers, a known app_key, a timestamp in the
\* window, a matching token and an allowed path; every other request gets
\* a 403 with no file opened and no upstream contacted.
C8_ResponderOnlyAfterValidation ==
    OnOAuthRoute =>
        IF /\ SentAllOAuthHeaders /\ SentKnownKey /\ SentTimeInWindow
           /\ SentGoodToken /\ SentAllowedPath
        THEN au_res.responder # "none"
        ELSE /\ au_res.responder = "none"
             /\ au_res.status = 403
             /\ au_res.opened = NoFile
             /\ ~au_res.upstream

\* C9: validate_oauth succeeds only if the oauth-time header is within 300
\* seconds of the clock, in the past or in the future.
C9_TimestampWithinWindow ==
    au_res.oauth = "ok" => Abs(au_res.at - atol(au_rq.time)) <= OAUTH_WINDOW

\* C10: a handler is never freed while the dispatch loop holds a reference
\* to it (between its ref_count++ and its ref_count--), whether the
\* callback deletes its own fd or another thread deletes the fd.
C10_HeldHandlerNotFreed ==
    lp_pc \in {"callback", "release"} => lp_state[lp_cur] # "freed"

\* C11: the bytes a sender borrowed from the cache are not reclaimed while
\* the sender still holds them, neither by the sweeper nor by a removal.
C11_BorrowedBytesNotReclaimed ==
    \A s \in Senders : fc_borrow[s] # 0 => fc_buf[fc_borrow[s]] = "live"

\* handle_request took a request to a verdict (NeedMore is rc 1)
RequestParsed == au_rq # NoAuthRequest /\ au_res.rc # 1

\* C12: for every request that is parsed, with or without a parse error,
\* exactly one status line is written to the client before the close.
C12_ExactlyOneResponse ==
    RequestParsed => au_res.responses = 1

\* the buffer starts like a valid request: a GET over HTTP/1.1 whose header
\* lines so far are clean, carry no Transfer-Encoding and repeat no name
ValidSoFar(rq) ==
    /\ rq.method = "GET" /\ rq.version = "HTTP/1.1"
    /\ \A i \in 1..Len(rq.lines) :
           /\ rq.lines[i].value = <<49>>
           /\ ~strcasecmp_eq(rq.lines[i].name, "Transfer-Encoding")
           /\ \A j \in 1..(i - 1) : ~strcasecmp_eq(rq.lines[j].name, rq.lines[i].name)

\* the body length the header lines declare
DeclaredLength(rq) == IF HasLineNamed(rq, "Content-Length") THEN 1 ELSE 0

\* the buffer is a valid request cut before its end
ProperPrefix(rq) == ValidSoFar(rq) /\ (~rq.ended \/ rq.avail < DeclaredLength(rq))

\* the buffer is exactly a valid request
WholeRequest(rq) == ValidSoFar(rq) /\ rq.ended /\ rq.avail = DeclaredLength(rq)

\* C14: the parser answers NeedMore for every proper prefix of a valid
\* request and Complete, with the declared body, for the whole request.
C14_PrefixNeedsMore ==
    ps_pc = "parsed" =>
        /\ ProperPrefix(ps_rq) => ps_res.rc = -2
        /\ WholeRequest(ps_rq) => ps_res.rc = 0 /\ ps_res.body_length = DeclaredLength(ps_rq)

\* a plain non-negative decimal: one or more digits and nothing else
PlainDecimal(v) == v # <<>> /\ \A i \in 1..Len(v) : IsDigit(v[i])

\* the Content-Length lines of the buffer
LengthLines(rq) == {i \in 1..Len(rq.lines) : strcasecmp_eq(rq.lines[i].name, "Content-Length")}

\* C15: a Content-Length that is not a plain non-negative decimal, or that
\* exceeds 10 MiB, is a parse error.
C15_BadContentLengthRejected ==
    ps_pc = "parsed" =>
        \A i \in LengthLines(ps_rq) :
            /\ LengthLines(ps_rq) = {i}
            /\ (~PlainDecimal(ps_rq.lines[i].value)
                   \/ DecimalValue(ps_rq.lines[i].value) > 10 * 1024 * 1024)
            => ps_res.rc = -1

\* C13: once a request has been handled the connection is destroyed, so no
\* second request of the same connection is ever parsed or answered.
C13_ClosedAfterOneRequest ==
    /\ conn.handled <= 1
    /\ conn.handled = 1 => conn.state = "destroyed"

\* a pipelined second request was delivered in full and the connection was
\* destroyed after the first one
C13_Witness ==
    /\ conn.handled = 1 /\ conn.state = "destroyed"
    /\ cl_rest = <<>>
    /\ Len(conn.buf) + Len(conn.sock) >= Len(GET_REQUEST)

\* C16: when a static 200 response was sent in full, the body bytes put on
\* the socket equal the Content-Length of its header, also when the
\* zero-copy transfer failed or stopped part-way and the fallback took over.
C16_BodyMatchesContentLength ==
    sd_pc = "done" /\ sd_res.rc = 0 => sd_res.wire = sd_res.content_length

\* the tokens delivered for the request the connection has not handled yet
Delivered == conn.buf \o conn.sock

\* a whole request has been delivered to the socket of the open connection
RequestDelivered ==
    /\ conn.state = "open" /\ conn.handled = 0
    /\ Delivered # <<>>
    /\ Len(Delivered) >= (IF Delivered[1] = "POST" THEN Len(POST_REQUEST) ELSE Len(GET_REQUEST))

\* C17: a whole request that has been delivered is eventually parsed and
\* answered (or the connection closed) without any further readiness event.
C17_DeliveredRequestAnswered ==
    RequestDelivered ~> (conn.handled >= 1 \/ conn.state = "destroyed")

\* C18: a connection idle for longer than the short timeout is eventually
\* closed, even if no further readiness event arrives.
C18_IdleConnectionClosed ==
    (conn.state = "open" /\ now - conn.last_activity > SHORT_TIMEOUT) ~> (conn.state = "destroyed")

\* C19: once the worker has begun its graceful shutdown the listener is
\* unregistered, the wait for the connections never exceeds the drain time
\* and ends only when no connection is left or the time is up, and the
\* worker always ends in the same state: exited cleanly, nothing left.
C19_DrainEndsInOneState ==
    /\ dr_pc \in {"draining", "stopped", "exited"} => ~dr_listening
    /\ dr_waited <= DRAIN_SECONDS
    /\ dr_pc = "stopped" => (LiveSlots = {} \/ dr_waited = DRAIN_SECONDS)
    /\ dr_pc = "exited" => (dr_exit = "clean" /\ LiveSlots = {})

\* C20: the relay does not run on the loop thread, so an event that is
\* pending for another connection never waits for a relay in progress.
C20_ReactorFreeDuringRelay ==
    rx_pending # {} => rx_loop = 0

\* C21: no relay is still running after the overall deadline (taken with
\* the one poll slice the loop may be inside when the deadline passes).
C21_RelayEndsByDeadline ==
    rx_loop # 0 => rx_elapsed <= PROXY_DEADLINE + PROXY_POLL_SECONDS

\* C22: a client that was sent bytes of the upstream response is sent no
\* error page after them.
C22_NoErrorPageAfterBytes ==
    \A fd \in RelayFds : rx_out[fd].chunks > 0 => rx_out[fd].pages = 0

\* the table nodes that carry fd
NodesOf(fd) == {i \in DOMAIN rg_table : rg_table[i].fd = fd}

\* C23: each registered fd has exactly one registration: one handler
\* object, which is both the one in the fd table and the one the kernel
\* dispatches to; an fd the kernel does not hold has no table node.
C23_OneRegistration ==
    \A fd \in RegFds :
        IF rg_epoll[fd] = 0
        THEN NodesOf(fd) = {}
        ELSE /\ Cardinality(NodesOf(fd)) = 1
             /\ \A i \in NodesOf(fd) : rg_table[i].handler = rg_epoll[fd]

\* C24: connection_destroy_internal works in the order release of the
\* per-IP count, unregistration from the reactor, close of the descriptor,
\* decrement of the worker's gauge, release of request and buffers, return
\* of the record to the pool: a later step is never done before an earlier
\* one, and the descriptor is never closed while it is still registered.
C24_DestroyInOrder ==
    \A c \in DestroyConns :
        ds_conn[c].state \in {"open", "destroying", "destroyed"} =>
            /\ ~ds_conn[c].registered => ds_conn[c].released
            /\ ~ds_conn[c].fd_open => ~ds_conn[c].registered
            /\ ds_conn[c].gauged => ~ds_conn[c].fd_open
            /\ ds_conn[c].freed => ds_conn[c].gauged
            /\ ds_conn[c].pooled => ds_conn[c].freed

\* a destroy that has closed the descriptor and not yet touched the gauge
C24_Witness ==
    \E c \in DestroyConns :
        /\ ds_conn[c].state = "destroying"
        /\ ds_conn[c].released /\ ~ds_conn[c].registered /\ ~ds_conn[c].fd_open
        /\ ~ds_conn[c].gauged /\ ~ds_conn[c].pooled

\* connection_read refuses to grow the read buffer of c any further
BufferAtCap(c) ==
    /\ Len(c.buf) >= c.read_size - READ_MARGIN
    /\ c.read_size * 2 > MAX_READ_SIZE

RECURSIVE SumCounts(_)
SumCounts(S) ==
    IF S = {} THEN 0
    ELSE LET ip == CHOOSE x \in S : TRUE
         IN  g_limit.conns[ip].connection_count + SumCounts(S \ {ip})

\* C26: after any interleaving of admissions and releases the connection
\* counts of all IPs add up to admits - rejects - releases, and no count is
\* negative.
C26_AdmissionAccounting ==
    /\ SumCounts(IPs) = ac_admits - ac_rejects - ac_releases
    /\ \A ip \in IPs : g_limit.conns[ip].connection_count >= 0

\* C27: burst_count decays by 1 per idle second, so a call that an IP makes
\* after max_requests_burst or more idle seconds, and that is accepted,
\* leaves its burst_count at 0.
C27_BurstRegained ==
    [][\A ip \in IPs :
          (/\ g_limit.rates[ip].present
           /\ now - g_limit.rates[ip].last_request >= max_requests_burst
           /\ g_limit'.rates[ip].present
           /\ g_limit'.rates[ip].last_request = now)
          => g_limit'.rates[ip].burst_count = 0]_vars

\* C28: the token comparison visits every byte of the expected and of the
\* presented token, whether and wherever they differ, a length mismatch
\* included.
C28_CompareVisitsEveryByte ==
    tk_pc = "done" =>
        /\ tk_res.visited >= Len(tk_expected)
        /\ tk_res.visited >= Len(tk_presented)

\* C29: a validation that runs concurrently with a reload never reads an
\* array that was freed or is not built, and the record it works on was
\* copied entirely from one array, the old one or the new one; the store
\* changes hands only while the reloader holds the mutex.
C29_ReloadAtomic ==
    /\ ~cf_bad
    /\ \A v \in Validators :
           cf_pc[v] = "use" =>
               /\ cf_local[v].app_key # 0
               /\ cf_local[v].app_key = cf_local[v].app_secret
    /\ cf_pc[RELOADER] \in {"swap", "free"} => cf_mutex = RELOADER
    /\ cf_g # 0 => cf_store[cf_g] = "live"

\* a validation still working on its copy after the array the copy was
\* taken from has been replaced and freed
C29_Witness ==
    \E v \in Validators :
        /\ cf_pc[v] = "use"
        /\ cf_local[v].app_key # 0
        /\ cf_store[cf_local[v].app_key] = "freed"
        /\ cf_g # cf_local[v].app_key

\* the total size of the items of the paths in S
RECURSIVE ResidentSize(_)
ResidentSize(S) ==
    IF S = {} THEN 0
    ELSE LET p == CHOOSE x \in S : TRUE
         IN  (IF cz_items[p].present THEN cz_items[p].size ELSE 0) + ResidentSize(S \ {p})

\* C30: the total size of the resident cache entries never exceeds the
\* global cap, whether a put inserted a new path or overwrote one.
C30_TotalWithinCap == ResidentSize(SizePaths) <= max_size

\* C31: a get that returns a borrow for a path returns exactly the bytes of
\* the last put made for that path, and at most one entry of a path is
\* resident.
C31_GetReturnsLastPut ==
    /\ pt_got.hit => /\ pt_got.data = pt_last[pt_got.path].data
                     /\ pt_got.size = Len(pt_last[pt_got.path].data)
    /\ \A p \in PutPaths : Cardinality({i \in DOMAIN pt_chain : pt_chain[i].path = p}) <= 1

\* a get answered after the second put of different bytes for its path
C31_Witness ==
    /\ pt_got.hit
    /\ pt_last[pt_got.path].count = 2
    /\ pt_got.data = <<2>>
    /\ Len(pt_chain) = 2

\* C32: a send served from the cache sends the bytes the file has on disk:
\* when the file was rewritten after it was cached, the cached bytes are
\* not sent.
C32_NoStaleBytesSent ==
    [][\A p \in PutPaths :
          (sl_sent' # sl_sent /\ sl_sent'.hit /\ sl_sent'.path = p)
          => sl_sent'.data = sl_disk[p].data]_vars

\* the segments of a path: the maximal runs of bytes other than '/', in
\* order, without the segments that are exactly "."
RECURSIVE SegmentsFrom(_, _, _)
SegmentsFrom(p, i, cur) ==
    LET close == IF cur = <<>> \/ cur = <<DOT>> THEN <<>> ELSE <<cur>>
    IN  IF i > Len(p) THEN close
        ELSE IF p[i] = SLASH THEN close \o SegmentsFrom(p, i + 1, <<>>)
        ELSE SegmentsFrom(p, i + 1, Append(cur, p[i]))

SegmentsOf(p) == SegmentsFrom(p, 1, <<>>)

\* both paths were accepted by normalize_path
BothAccepted == pq_pc = "done" /\ ~pq_out[1].null /\ ~pq_out[2].null

\* C33: two paths that are equal up to "." segments and runs of '/' have
\* the same normal form.
C33_EquivalentPathsSameForm ==
    (BothAccepted /\ SegmentsOf(pq_p) = SegmentsOf(pq_q)) => pq_out[1].path = pq_out[2].path

\* C40: normalisation removes only empty and "." segments: the segments of
\* the output are the other segments of the input, unchanged and in order,
\* so paths with different segment sequences have different normal forms.
C40_SegmentsPreserved ==
    BothAccepted =>
        /\ SegmentsOf(pq_out[1].path) = SegmentsOf(pq_p)
        /\ SegmentsOf(pq_p) # SegmentsOf(pq_q) => pq_out[1].path # pq_out[2].path

\* C34: the pool's connection_count equals the number of live connections
\* it handed out, so the pool has room whenever fewer than max_connections
\* connections are live.
C34_PoolCountIsLiveCount ==
    pool_count = Cardinality({fd \in FDs : w_conn[fd] # NoIp})

\* C37: the worker's active_connections gauge equals the number of live
\* connections at every point, connections whose creation failed half-way
\* included.
C37_GaugeIsLiveCount ==
    active_connections = Cardinality({fd \in FDs : w_conn[fd] # NoIp})

\* C36: the config reference of a live connection is valid for the whole
\* life of the connection: a reload never releases a config record that a
\* connection still refers to.
C36_ConfigReferenceValid ==
    \A c \in RefConns : rc_conn[c] # NoConfig => rc_conn[c] \notin rc_freed

\* C39: the path in the request line sent upstream always begins with a
\* slash: removing the route prefix never leaves an empty path or a path
\* without its leading slash.
C39_UpstreamPathHasSlash ==
    rw_pc = "sent" => Len(rw_out) > 0 /\ rw_out[1] = SLASH

\* C38: a file transfer to a client that has stopped reading ends: the send
\* loop returns instead of retrying on EAGAIN for ever, so the other
\* connection's event is eventually served.
C38_StalledTransferEnds ==
    (sv_client = "stopped") ~> (sv_pc = "returned")

\* C35: no connection record is destroyed a second time and no accepted fd
\* is closed a second time, whichever path ends the connection.
C35_DestroyedAndClosedOnce ==
    \A c \in OnceConns : oc_destroys[c] <= 1 /\ oc_closes[c] <= 1

====
